---------------------------- MODULE Spec2Model ----------------------------
(***************************************************************************)
(* A model of mcp-ssh's session layer: the Manager (pkg/ssh/manager.go),   *)
(* the HostValidator (pkg/ssh/validator.go, second half of manager.go in   *)
(* this tree) and the ShellExecutor (pkg/ssh/executor.go).                 *)
(*                                                                         *)
(* Three specifications share the module:                                  *)
(*   SpecRead  the pure text functions of the executor (ReadString,        *)
(*             readUntilDelimiter, the TrimSpace of Execute's result)      *)
(*             applied to bounded byte streams;                            *)
(*   SpecExec  one ShellExecutor with its mutex, its stdin, the remote     *)
(*             shell, the two bufio readers and the goroutines of Execute; *)
(*   Spec      the Manager: registry, RWMutex, Connect / Execute / Close / *)
(*             List / CloseAll run by concurrent callers.                  *)
(* Text is a sequence of one-character strings; the token "E" stands for   *)
(* the fixed text __MCP_SSH_END_ and "_" for the closing "__".             *)
(***************************************************************************)
EXTENDS Integers, Sequences, FiniteSets, TLC

(***************************************************************************)
(* Bounds of the model.                                                    *)
(***************************************************************************)
\* number of pieces a SpecRead input stream is assembled from
MaxPieces == 4
\* number of Execute calls made on the executor of SpecExec
MaxRuns == 2
\* the registry's capacity; manager.go has MaxConnections = 100, and the model
\* keeps the comparison and scales the number down
MaxConnections == 2
\* number of connection objects (client, executor, Connection) alive at once
MaxHandles == 3

(***************************************************************************)
(* Text helpers (Go's strings package, as the executor uses it).           *)
(***************************************************************************)
None == "none"

\* unicode.IsSpace restricted to the model's alphabet
IsSpace(c) == c \in {" ", "\n"}

\* strings.TrimSpace
TrimSpace(s) ==
    LET keep == {i \in 1..Len(s) : ~IsSpace(s[i])}
    IN  IF keep = {} THEN <<>>
        ELSE LET lo == CHOOSE i \in keep : \A j \in keep : i <= j
                 hi == CHOOSE i \in keep : \A j \in keep : j <= i
             IN  SubSeq(s, lo, hi)

\* strings.Contains
Contains(s, sub) ==
    \E i \in 1..(Len(s) - Len(sub) + 1) : SubSeq(s, i, i + Len(sub) - 1) = sub

\* strings.Split on a one-character separator
RECURSIVE Split(_, _)
Split(s, sep) ==
    LET hits == {i \in 1..Len(s) : s[i] = sep}
    IN  IF hits = {} THEN <<s>>
        ELSE LET i == CHOOSE k \in hits : \A j \in hits : k <= j
             IN  <<SubSeq(s, 1, i - 1)>> \o Split(SubSeq(s, i + 1, Len(s)), sep)

Digits == <<"0", "1", "2", "3", "4", "5", "6", "7", "8", "9">>

DigitVal(c) == (CHOOSE i \in 1..10 : Digits[i] = c) - 1

IsDigit(c) == \E i \in 1..10 : Digits[i] = c

RECURSIVE DecimalValue(_)
DecimalValue(ds) ==
    IF ds = <<>> THEN 0
    ELSE 10 * DecimalValue(SubSeq(ds, 1, Len(ds) - 1)) + DigitVal(ds[Len(ds)])

\* fmt.Sscanf(s, "%d", &v): the leading run of digits; no digit: v is left alone
Sscanf(s, old) ==
    LET nd == {i \in 1..Len(s) : ~IsDigit(s[i])}
        k  == IF nd = {} THEN Len(s)
              ELSE (CHOOSE i \in nd : \A j \in nd : i <= j) - 1
    IN  IF k = 0 THEN old ELSE DecimalValue(SubSeq(s, 1, k))

\* fmt.Sprintf("%d", n) for the small clock values of the model
Itoa(n) == <<Digits[n + 1]>>

\* the fixed text "__MCP_SSH_END_"
DelimiterPrefix == <<"E">>

\* delimiter := fmt.Sprintf("__MCP_SSH_END_%d__", time.Now().UnixNano())
Delimiter(t) == DelimiterPrefix \o Itoa(t) \o <<"_">>

\* bufio.Reader.ReadString('\n') on the bytes `data` still to come, the stream
\* ending as `end` ("EOF" or "error") after them
ReadString(data, end) ==
    LET nl == {i \in 1..Len(data) : data[i] = "\n"}
    IN  IF nl = {} THEN [line |-> data, err |-> end, rest |-> <<>>]
        ELSE LET i == CHOOSE k \in nl : \A j \in nl : k <= j
             IN  [line |-> SubSeq(data, 1, i), err |-> "nil",
                  rest |-> SubSeq(data, i + 1, Len(data))]

\* readUntilDelimiter with the line kept even when it holds the delimiter
\* (the `output.WriteString(line)` moved above the check)
ReadIterationKeepsSentinel(st, rs, delimiter) ==
    IF rs.err # "nil"
    THEN IF rs.err = "EOF"
         THEN [st EXCEPT !.pc = "return", !.err = "nil"]
         ELSE [st EXCEPT !.pc = "return", !.output = <<>>, !.exitCode = 0,
                         !.err = "error"]
    ELSE IF Contains(rs.line, delimiter)
         THEN LET parts == Split(rs.line, ":")
              IN  [st EXCEPT !.pc = "return", !.err = "nil", !.sentinel = TRUE,
                             !.output = st.output \o rs.line,
                             !.exitCode = IF Len(parts) = 2
                                          THEN Sscanf(TrimSpace(parts[2]), st.exitCode)
                                          ELSE st.exitCode]
         ELSE [st EXCEPT !.output = st.output \o rs.line]

\* readUntilDelimiter with io.EOF returned like any other read error
ReadIterationEofFails(st, rs, delimiter) ==
    IF rs.err # "nil"
    THEN [st EXCEPT !.pc = "return", !.output = <<>>, !.exitCode = 0,
                    !.err = "error"]
    ELSE IF Contains(rs.line, delimiter)
         THEN LET parts == Split(rs.line, ":")
              IN  [st EXCEPT !.pc = "return", !.err = "nil", !.sentinel = TRUE,
                             !.exitCode = IF Len(parts) = 2
                                          THEN Sscanf(TrimSpace(parts[2]), st.exitCode)
                                          ELSE st.exitCode]
         ELSE [st EXCEPT !.output = st.output \o rs.line]

\* one iteration of the loop of readUntilDelimiter: rs is what ReadString gave
ReadIteration(st, rs, delimiter) ==
    IF rs.err # "nil"
    THEN IF rs.err = "EOF"
         THEN [st EXCEPT !.pc = "return", !.err = "nil"]
         ELSE [st EXCEPT !.pc = "return", !.output = <<>>, !.exitCode = 0,
                         !.err = "error"]
    ELSE IF Contains(rs.line, delimiter)
         THEN LET parts == Split(rs.line, ":")
              IN  [st EXCEPT !.pc = "return", !.err = "nil", !.sentinel = TRUE,
                             !.exitCode = IF Len(parts) = 2
                                          THEN Sscanf(TrimSpace(parts[2]), st.exitCode)
                                          ELSE st.exitCode]
         ELSE [st EXCEPT !.output = st.output \o rs.line]

\* var output strings.Builder; var exitCode int
ReaderStart == [pc |-> "loop", output |-> <<>>, exitCode |-> 0, err |-> "nil",
                sentinel |-> FALSE]

(***************************************************************************)
(* State.                                                                  *)
(***************************************************************************)
VARIABLES
    \* SpecRead: one call of readUntilDelimiter and the result Execute builds
    rd_in,         \* the bytes the primary stream delivers, in order
    rd_end,        \* how the stream ends after them: "EOF" or "error"
    rd_delimiter,  \* the delimiter of the call
    rd_reader,     \* the bytes not yet read
    rd_st,         \* readUntilDelimiter's locals (output, exitCode) and position
    rd_result,     \* what Execute returns: a CommandResult or an error
    \* SpecExec: one ShellExecutor
    ex_mu,         \* e.mu: the caller holding it, or None
    ex_pc,         \* where each caller is in Execute (the closer: in Close)
    ex_arg,        \* the command each caller passed
    ex_cur,        \* the run (1, 2, ... in the order e.mu was taken) of each caller
    ex_loc,        \* Execute's locals: the builders and the two received flags
    ex_calls,      \* number of Execute calls made so far
    ex_nruns,      \* number of runs that took e.mu so far
    ex_run,        \* per run: command, delimiter, exitCode, the three channels, the
                   \* result and (history) what the stdout goroutine had found
    ex_so,         \* per run: the goroutine reading stdout
    ex_se,         \* per run: the goroutine reading stderr
    ex_stdin,      \* what was written to e.stdin and the shell has not read yet
    ex_written,    \* everything ever written to e.stdin, in order (history)
    ex_shell,      \* the remote shell: environment, $?, alive
    ex_log,        \* the commands the shell ran, with the environment around each
    ex_stdout,     \* e.stdout: the bufio.Reader's buffer and the pipe behind it
    ex_stderr,     \* e.stderr: likewise
    ex_end,        \* the session's streams: "open", or ended by "EOF" or "error"
    \* Spec: the Manager
    connections,   \* m.connections: for each id its *Connection (a handle), or 0
    mu,            \* m.mu: the caller holding the write lock, or None
    heap,          \* the connection objects: client, executor, the executor's mu
    m_pc,          \* where each caller is in its Manager method
    m_id,          \* the id each caller passed
    m_conn,        \* the connection each caller works on (conn, or client+executor)
    m_snap,        \* (history) m.connections when Connect took m.mu
    m_host,        \* the host each Connect in progress was given, if any
    m_ret,         \* the return that happened in the last step, if any
    \* SpecValidate: one HostValidator
    vl_spec,       \* the allowedHosts text NewHostValidator is given
    vl_host,       \* the host Validate is given
    vl_val,        \* what NewHostValidator returned: the patterns, or the error
    vl_res,        \* what Validate returned
    \* SpecHandlers: the tool handlers in front of a Manager
    hd_reg,        \* m.connections: for each id, 1 when it is registered
    hd_written,    \* for each id, the commands written to its shell so far
    hd_last,       \* the last request handled and what the handler returned
    \* SpecInit: NewShellExecutor and the first run on the executor it returns
    ns_pc,         \* where NewShellExecutor is, then the first Execute
    ns_stdout,     \* e.stdout: the bufio.Reader's buffer and the pipe behind it
    ns_stderr,     \* e.stderr: likewise
    ns_noise,      \* (history) what arrived on each stream during the settle delays
    ns_result,     \* what the first Execute returned
    \* SpecClock: the delimiters of the runs of one executor, under any clock
    tk_clock,      \* what time.Now().UnixNano() returns now
    tk_pc,         \* whether a run is between e.mu.Lock() and its return
    tk_delims,     \* the delimiter of each run so far, in order
    tk_stdin,      \* the echo lines written to e.stdin the shell has not run yet
    tk_stdout,     \* the lines on e.stdout nobody has read, each with the run it answers
    tk_by,         \* per finished run: the run whose sentinel line ended it (0: timed out)
    \* SpecSize: how much readUntilDelimiter accumulates for one run
    sz_pc,         \* where readUntilDelimiter is, then Execute
    sz_lines,      \* the number of lines read so far
    sz_output,     \* len(output.String()): the bytes accumulated so far
    sz_result,     \* what Execute returned: the length of Stdout
    \* SpecClose: Manager.Close and CloseAll, one Close call of the teardown at a time
    cl_reg,        \* m.connections: for each id whether it is registered
    cl_part,       \* per session: its stdin, its session and its client, open or closed
    cl_emu,        \* per session: who holds e.mu (a run, the closer) or None
    cl_pc,         \* where the caller of Close or CloseAll is
    cl_op,         \* the call in progress
    cl_id,         \* the id it is tearing down
    cl_log,        \* (history) the Close calls made, in order, each with its error
    cl_ret,        \* what the last call returned
    \* SpecRecords: the ConnectionInfo of each registered connection
    rc_conns,      \* m.connections: per id <<>> or <<Info>>, the Info of its Connection
    rc_now,        \* what time.Now() returns
    rc_list,       \* the []ConnectionInfo the last List returned, in its caller's hands
    rc_ret         \* the last call made and what it returned

rdVars == <<rd_in, rd_end, rd_delimiter, rd_reader, rd_st, rd_result>>

exCaller == <<ex_pc, ex_arg, ex_cur, ex_loc, ex_calls, ex_nruns>>

exRemote == <<ex_stdin, ex_written, ex_shell, ex_log>>

exStreams == <<ex_stdout, ex_stderr, ex_end>>

exVars == <<ex_mu, exCaller, ex_run, ex_so, ex_se, exRemote, exStreams>>

mgVars == <<connections, mu, heap, m_pc, m_id, m_conn, m_snap, m_host, m_ret>>

vlVars == <<vl_spec, vl_host, vl_val, vl_res>>

hdVars == <<hd_reg, hd_written, hd_last>>

nsVars == <<ns_pc, ns_stdout, ns_stderr, ns_noise, ns_result>>

tkVars == <<tk_clock, tk_pc, tk_delims, tk_stdin, tk_stdout, tk_by>>

szVars == <<sz_pc, sz_lines, sz_output, sz_result>>

clVars == <<cl_reg, cl_part, cl_emu, cl_pc, cl_op, cl_id, cl_log, cl_ret>>

rcVars == <<rc_conns, rc_now, rc_list, rc_ret>>

vars == <<rdVars, exVars, mgVars, vlVars, hdVars, nsVars, tkVars, szVars, clVars, rcVars>>

\* what the actions of one specification leave alone
notRdVars == <<exVars, mgVars, vlVars, hdVars, nsVars, tkVars, szVars, clVars, rcVars>>

notExVars == <<rdVars, mgVars, vlVars, hdVars, nsVars, tkVars, szVars, clVars, rcVars>>

notMgVars == <<rdVars, exVars, vlVars, hdVars, nsVars, tkVars, szVars, clVars, rcVars>>

notVlVars == <<rdVars, exVars, mgVars, hdVars, nsVars, tkVars, szVars, clVars, rcVars>>

notHdVars == <<rdVars, exVars, mgVars, vlVars, nsVars, tkVars, szVars, clVars, rcVars>>

notNsVars == <<rdVars, exVars, mgVars, vlVars, hdVars, tkVars, szVars, clVars, rcVars>>

notTkVars == <<rdVars, exVars, mgVars, vlVars, hdVars, nsVars, szVars, clVars, rcVars>>

notSzVars == <<rdVars, exVars, mgVars, vlVars, hdVars, nsVars, tkVars, clVars, rcVars>>

notClVars == <<rdVars, exVars, mgVars, vlVars, hdVars, nsVars, tkVars, szVars, rcVars>>

notRcVars == <<rdVars, exVars, mgVars, vlVars, hdVars, nsVars, tkVars, szVars, clVars>>

(***************************************************************************)
(* Results of Execute.                                                     *)
(***************************************************************************)
NoResult == [kind |-> "none"]

\* &CommandResult{Stdout: strings.TrimSpace(stdoutBuilder.String()), ...}
\* without the trim
CommandResultUntrimmed(stdout, stderr, exitCode) ==
    [kind |-> "ok", stdout |-> stdout, stderr |-> stderr, exitCode |-> exitCode]

\* &CommandResult{Stdout: strings.TrimSpace(stdoutBuilder.String()), ...}
CommandResult(stdout, stderr, exitCode) ==
    [kind |-> "ok", stdout |-> TrimSpace(stdout), stderr |-> TrimSpace(stderr),
     exitCode |-> exitCode]

\* fmt.Errorf("read error: %w", err)
StreamError == [kind |-> "StreamError"]

\* fmt.Errorf("command contains forbidden delimiter pattern ...")
InvalidCommand == [kind |-> "InvalidCommand"]

\* fmt.Errorf("failed to write command: %w", err)
WriteError == [kind |-> "WriteError"]

\* fmt.Errorf("command execution timed out")
CommandTimeout == [kind |-> "CommandTimeout"]

(***************************************************************************)
(* The commands of the model and the remote shell that runs them.          *)
(***************************************************************************)
\* export FOO=bar
CmdExport == <<"export">>

\* echo $FOO
CmdEcho == <<"echo">>

\* ls /nonexistent: nothing on stdout, a line on stderr, exit status 2
CmdFail == <<"ls">>

\* echo __MCP_SSH_END_1__:0, a command that holds the delimiter's fixed text
CmdForge == <<"echo", "E", "1", "_", ":", "0">>

Commands == {CmdExport, CmdEcho, CmdFail, CmdForge}

\* what one command line does in a shell whose FOO is `foo`
ShellRun(cmd, foo) ==
    CASE cmd = CmdExport -> [foo |-> <<"b">>, status |-> 0, out |-> <<>>, err |-> <<>>]
      [] cmd = CmdEcho   -> [foo |-> foo, status |-> 0, out |-> foo \o <<"\n">>,
                             err |-> <<>>]
      [] cmd = CmdFail   -> [foo |-> foo, status |-> 2, out |-> <<>>,
                             err |-> <<"n", "\n">>]
      [] OTHER           -> [foo |-> foo, status |-> 0, out |-> Tail(cmd) \o <<"\n">>,
                             err |-> <<>>]

Callers == {"c1", "c2"}

\* stderrReadTimeout = 100 * time.Millisecond, in milliseconds
stderrReadTimeout == 100

\* defaultCommandTimeout = 30 * time.Second, in milliseconds
defaultCommandTimeout == 30000

Runs == 1..MaxRuns

\* time.Now().UnixNano() as the r-th run on the executor reads it: the runs of
\* one executor are serialized, and the clock advances from one to the next
UnixNano(r) == r

\* a bufio.Reader over a pipe: buf is what Buffered() counts, pipe is what
\* has arrived from the remote side and no Read has fetched yet
EmptyReader == [buf |-> <<>>, pipe |-> <<>>]

HasNewline(data) == \E i \in 1..Len(data) : data[i] = "\n"

\* reader.Buffered()
Buffered(rdr) == Len(rdr.buf)

\* whether reader.ReadString('\n') returns rather than blocks
Readable(rdr, end) == HasNewline(rdr.buf \o rdr.pipe) \/ end # "open"

\* reader.ReadString('\n'): served from the buffer when it holds a line, else
\* after a fill that fetches what the pipe holds
BufioReadString(rdr, end) ==
    IF HasNewline(rdr.buf)
    THEN LET rs == ReadString(rdr.buf, "EOF")
         IN  [rs |-> rs, rdr |-> [rdr EXCEPT !.buf = rs.rest]]
    ELSE LET rs == ReadString(rdr.buf \o rdr.pipe, end)
         IN  [rs |-> rs, rdr |-> [buf |-> rs.rest, pipe |-> <<>>]]

NoRun == [cmd |-> <<>>, delimiter |-> <<>>, exitCode |-> 0, stdoutChan |-> <<>>,
          stderrChan |-> <<>>, errChan |-> <<>>, res |-> NoResult,
          seen |-> [sentinel |-> FALSE, code |-> 0]]

NoReader == [pc |-> "none", st |-> ReaderStart]

NoStderrReader == [pc |-> "none", output |-> <<>>]

NoLocals == [stdoutBuilder |-> <<>>, stderrBuilder |-> <<>>,
             stdoutReceived |-> FALSE, stderrReceived |-> FALSE]

\* a ShellExecutor as NewShellExecutor returns it, nobody calling it
ExIdle ==
    /\ ex_mu = None
    /\ ex_pc = [c \in Callers |-> "idle"]
    /\ ex_arg = [c \in Callers |-> <<>>]
    /\ ex_cur = [c \in Callers |-> 0]
    /\ ex_loc = [c \in Callers |-> NoLocals]
    /\ ex_calls = 0
    /\ ex_nruns = 0
    /\ ex_run = [r \in Runs |-> NoRun]
    /\ ex_so = [r \in Runs |-> NoReader]
    /\ ex_se = [r \in Runs |-> NoStderrReader]
    /\ ex_stdin = <<>>
    /\ ex_written = <<>>
    /\ ex_shell = [foo |-> <<>>, status |-> 0, alive |-> TRUE]
    /\ ex_log = <<>>
    /\ ex_stdout = EmptyReader
    /\ ex_stderr = EmptyReader
    /\ ex_end = "open"

(***************************************************************************)
(* SpecRead: readUntilDelimiter and Execute's result, on bounded streams.  *)
(***************************************************************************)
\* what a remote shell can put on the primary stream, in pieces: a line of
\* output, a blank, text without newline, the sentinel of this call, the
\* sentinel of an earlier call, the exit status that ends a sentinel line
Pieces == { <<"a", "\n">>, <<" ">>, <<"a">>, Delimiter(1), Delimiter(0),
            <<":", "1", "\n">>, <<"\n">>, <<":">> }

RECURSIVE Flatten(_)
Flatten(ps) == IF ps = <<>> THEN <<>> ELSE Head(ps) \o Flatten(Tail(ps))

Streams == {Flatten(ps) : ps \in UNION {[1..n -> Pieces] : n \in 0..MaxPieces}}

(***************************************************************************)
(* The Manager's callers, ids and objects, and its state after NewManager. *)
(***************************************************************************)
Procs == {"p1", "p2", "p3"}

IDs == 1..(MaxConnections + 1)

Handles == 1..MaxHandles

\* a handle no object lives at
NoConn == [client |-> "none", executor |-> "none", emu |-> None]

\* no call returned in the last step
NoReturn ==
    [proc |-> None, op |-> "none", id |-> 0, kind |-> "none", dup |-> FALSE,
     ids |-> {}, before |-> <<>>]

\* NewManager: connections: make(map[string]*Connection)
MgIdle ==
    /\ connections = [id \in IDs |-> 0]
    /\ mu = None
    /\ heap = [h \in Handles |-> NoConn]
    /\ m_pc = [p \in Procs |-> "idle"]
    /\ m_id = [p \in Procs |-> 0]
    /\ m_conn = [p \in Procs |-> 0]
    /\ m_snap = [p \in Procs |-> <<>>]
    /\ m_host = [p \in Procs |-> <<>>]
    /\ m_ret = NoReturn

\* no validator built yet
VlIdle ==
    /\ vl_spec = <<>>
    /\ vl_host = <<>>
    /\ vl_val = [err |-> "none", patterns |-> <<>>]   \* NoValidator
    /\ vl_res = "none"

\* the arguments of a request: each is <<>> when the request does not have it
\* and <<value>> when it does
NoArgs ==
    [connection_id |-> <<>>, host |-> <<>>, username |-> <<>>, port |-> <<>>,
     password |-> <<>>, private_key_path |-> <<>>, command |-> <<>>]

\* no request handled yet
NoRequest ==
    [tool |-> "none", args |-> NoArgs,
     out |-> [result |-> [isError |-> FALSE, text |-> ""], err |-> "nil"],
     mgr |-> "notcalled", calls |-> <<>>, ids |-> {}]

\* NewHandlers(NewManager(...)): nothing registered, nothing handled
HdIdle ==
    /\ hd_reg = [id \in IDs |-> 0]
    /\ hd_written = [id \in IDs |-> 0]
    /\ hd_last = NoRequest

\* no executor under construction
NsIdle ==
    /\ ns_pc = "idle"
    /\ ns_stdout = EmptyReader
    /\ ns_stderr = EmptyReader
    /\ ns_noise = [stdout |-> <<>>, stderr |-> <<>>, n |-> 0]
    /\ ns_result = NoResult

\* an executor nobody has run anything on, the clock at 0
TkIdle ==
    /\ tk_clock = 0
    /\ tk_pc = "idle"
    /\ tk_delims = <<>>
    /\ tk_stdin = <<>>
    /\ tk_stdout = <<>>
    /\ tk_by = <<>>

\* no run being read
SzIdle ==
    /\ sz_pc = "idle"
    /\ sz_lines = 0
    /\ sz_output = 0
    /\ sz_result = NoResult

\* no teardown modelled
ClIdle ==
    /\ cl_reg = [id \in IDs |-> FALSE]
    /\ cl_part = [id \in IDs |->
                    [stdin |-> "none", session |-> "none", client |-> "none"]]
    /\ cl_emu = [id \in IDs |-> None]
    /\ cl_pc = "idle"
    /\ cl_op = "none"
    /\ cl_id = 0
    /\ cl_log = <<>>
    /\ cl_ret = "none"

\* no records modelled
RcIdle ==
    /\ rc_conns = [id \in IDs |-> <<>>]
    /\ rc_now = 0
    /\ rc_list = {}
    /\ rc_ret = [op |-> "none", id |-> 0, kind |-> "none"]

RdIdle ==
    /\ rd_in = <<>>
    /\ rd_end = "EOF"
    /\ rd_delimiter = <<>>
    /\ rd_reader = <<>>
    /\ rd_st = ReaderStart
    /\ rd_result = NoResult

InitRead ==
    /\ rd_in \in Streams
    /\ rd_end \in {"EOF", "error"}
    /\ rd_delimiter = Delimiter(1)
    /\ rd_reader = rd_in
    /\ rd_st = ReaderStart
    /\ rd_result = NoResult
    /\ ExIdle
    /\ MgIdle
    /\ VlIdle
    /\ HdIdle
    /\ NsIdle
    /\ TkIdle
    /\ SzIdle
    /\ ClIdle
    /\ RcIdle

\* one pass of the for loop of readUntilDelimiter
RdReadLine ==
    /\ rd_st.pc = "loop"
    /\ LET rs == ReadString(rd_reader, rd_end)
       IN  /\ rd_st' = ReadIteration(rd_st, rs, rd_delimiter)
           /\ rd_reader' = rs.rest
    /\ UNCHANGED <<rd_in, rd_end, rd_delimiter, rd_result, notRdVars>>

\* Execute, once the reader has reported and the secondary stream gave nothing
RdExecuteReturn ==
    /\ rd_st.pc = "return"
    /\ rd_result = NoResult
    /\ rd_result' = IF rd_st.err # "nil" THEN StreamError
                    ELSE CommandResult(rd_st.output, <<>>, rd_st.exitCode)
    /\ UNCHANGED <<rd_in, rd_end, rd_delimiter, rd_reader, rd_st, notRdVars>>

NextRead == RdReadLine \/ RdExecuteReturn

SpecRead == InitRead /\ [][NextRead]_vars

(***************************************************************************)
(* SpecExec: ShellExecutor.Execute and ShellExecutor.Close on one          *)
(* executor, the goroutines Execute starts, and the remote shell.          *)
(***************************************************************************)
InitExec ==
    /\ RdIdle /\ ExIdle /\ MgIdle /\ VlIdle
    /\ HdIdle /\ NsIdle /\ TkIdle /\ SzIdle /\ ClIdle /\ RcIdle

\* e.mu.Lock() never waiting
MutexAvailableAlways(holder) == TRUE

\* e.mu.Lock() returns only when nobody holds e.mu
MutexAvailable(holder) == holder = None

\* the delimiter check left out
ForbiddenCommandNever(command) == FALSE

\* strings.Contains(command, "__MCP_SSH_END_")
ForbiddenCommand(command) == Contains(command, DelimiterPrefix)

\* the payload with the echo of the delimiter put before the command
FullCommandEchoFirst(command, delimiter) ==
    << [kind |-> "echo", text |-> delimiter], [kind |-> "cmd", text |-> command] >>

\* fullCommand := fmt.Sprintf("%s\necho \"%s:$?\"\n", command, delimiter):
\* the two lines of the payload
FullCommand(command, delimiter) ==
    << [kind |-> "cmd", text |-> command], [kind |-> "echo", text |-> delimiter] >>

\* the i-th line of the payload of run r, as it goes to e.stdin
PayloadLine(r, i) ==
    LET line == FullCommand(ex_run[r].cmd, ex_run[r].delimiter)[i]
    IN  [kind |-> line.kind, text |-> line.text, run |-> r]

\* e.stdin.Write fails once the channel is gone
StdinBroken == ex_end # "open"

\* readStderr is inside reader.ReadString, which waits for a whole line
StderrReadBlocked == Buffered(ex_stderr) > 0 /\ ~Readable(ex_stderr, ex_end)

\* a caller calls Execute(command); the second caller comes second
ExCall(c, command) ==
    /\ ex_pc[c] = "idle"
    /\ ex_calls < MaxRuns
    /\ c = "c2" => ex_calls > 0
    /\ ex_calls' = ex_calls + 1
    /\ ex_pc' = [ex_pc EXCEPT ![c] = "lock"]
    /\ ex_arg' = [ex_arg EXCEPT ![c] = command]
    /\ UNCHANGED <<ex_mu, ex_cur, ex_loc, ex_nruns, ex_run, ex_so, ex_se,
                   exRemote, exStreams, notExVars>>

\* what is left of a stdout goroutine once its Execute has returned: nothing it
\* holds or sends can be seen any more, only its reads of e.stdout go on
OrphanReader(so) ==
    IF so.pc = "loop" THEN [pc |-> "loop", st |-> ReaderStart] ELSE NoReader

\* likewise for a stderr goroutine
OrphanStderrReader(se) ==
    IF se.pc = "poll" THEN [pc |-> "poll", output |-> <<>>] ELSE NoStderrReader

\* `return` of Execute on run r, with the deferred e.mu.Unlock(): the result
\* goes to the caller; the channels and locals of the call become unreachable
ExecuteReturns(c, r, result) ==
    /\ ex_run' = [ex_run EXCEPT ![r] =
                     [cmd |-> @.cmd, delimiter |-> @.delimiter, exitCode |-> 0,
                      stdoutChan |-> <<>>, stderrChan |-> <<>>, errChan |-> <<>>,
                      res |-> result,
                      seen |-> [sentinel |-> ex_so[r].st.sentinel,
                                code |-> ex_so[r].st.exitCode]]]
    /\ ex_so' = [ex_so EXCEPT ![r] = OrphanReader(@)]
    /\ ex_se' = [ex_se EXCEPT ![r] = OrphanStderrReader(@)]
    /\ ex_mu' = None
    /\ ex_pc' = [ex_pc EXCEPT ![c] = "idle"]
    /\ ex_arg' = [ex_arg EXCEPT ![c] = <<>>]
    /\ ex_cur' = [ex_cur EXCEPT ![c] = 0]
    /\ ex_loc' = [ex_loc EXCEPT ![c] = NoLocals]

\* e.mu.Lock(); delimiter := fmt.Sprintf(..., time.Now().UnixNano()); then
\* if strings.Contains(command, "__MCP_SSH_END_") { return nil, error }
ExLock(c) ==
    /\ ex_pc[c] = "lock"
    /\ MutexAvailable(ex_mu)
    /\ ex_nruns' = ex_nruns + 1
    /\ LET r == ex_nruns + 1
       IN  IF ForbiddenCommand(ex_arg[c])
           THEN /\ ex_run' = [ex_run EXCEPT ![r] =
                       [NoRun EXCEPT !.cmd = ex_arg[c], !.res = InvalidCommand]]
                /\ ex_pc' = [ex_pc EXCEPT ![c] = "idle"]
                /\ ex_arg' = [ex_arg EXCEPT ![c] = <<>>]
                /\ UNCHANGED <<ex_mu, ex_cur>>
           ELSE /\ ex_run' = [ex_run EXCEPT ![r] =
                       [NoRun EXCEPT !.cmd = ex_arg[c],
                                     !.delimiter = Delimiter(UnixNano(r))]]
                /\ ex_mu' = c
                /\ ex_cur' = [ex_cur EXCEPT ![c] = r]
                /\ ex_pc' = [ex_pc EXCEPT ![c] = "write"]
                /\ UNCHANGED ex_arg
    /\ UNCHANGED <<ex_loc, ex_calls, ex_so, ex_se, exRemote, exStreams, notExVars>>

\* e.stdin.Write([]byte(fullCommand)), first part: the command and its newline.
\* (The channel sends a large payload as several packets, so one Write is not
\* one step; the model sends the payload's two lines one after the other.)
ExWriteCommand(c) ==
    /\ ex_pc[c] = "write"
    /\ IF StdinBroken
       THEN /\ ExecuteReturns(c, ex_cur[c], WriteError)
            /\ UNCHANGED <<ex_stdin, ex_written>>
       ELSE LET chunk == PayloadLine(ex_cur[c], 1)
            IN  /\ ex_stdin' = Append(ex_stdin, chunk)
                /\ ex_written' = Append(ex_written, chunk)
                /\ ex_pc' = [ex_pc EXCEPT ![c] = "write2"]
                /\ UNCHANGED <<ex_mu, ex_run, ex_arg, ex_cur, ex_loc, ex_so, ex_se>>
    /\ UNCHANGED <<ex_calls, ex_nruns, ex_shell, ex_log, exStreams, notExVars>>

\* e.stdin.Write, second part: echo "<delimiter>:$?" and its newline; then the
\* channels are made and the two goroutines started
ExWriteEcho(c) ==
    /\ ex_pc[c] = "write2"
    /\ IF StdinBroken
       THEN /\ ExecuteReturns(c, ex_cur[c], WriteError)
            /\ UNCHANGED <<ex_stdin, ex_written>>
       ELSE LET r     == ex_cur[c]
                chunk == PayloadLine(r, 2)
            IN  /\ ex_stdin' = Append(ex_stdin, chunk)
                /\ ex_written' = Append(ex_written, chunk)
                /\ ex_so' = [ex_so EXCEPT ![r] = [pc |-> "loop", st |-> ReaderStart]]
                /\ ex_se' = [ex_se EXCEPT ![r] = [pc |-> "poll", output |-> <<>>]]
                /\ ex_pc' = [ex_pc EXCEPT ![c] = "wait"]
                /\ UNCHANGED <<ex_mu, ex_run, ex_arg, ex_cur, ex_loc>>
    /\ UNCHANGED <<ex_calls, ex_nruns, ex_shell, ex_log, exStreams, notExVars>>

\* the select loop, after one of the two outputs was received: either the loop
\* goes on, or both are in and Execute returns the CommandResult, reading the
\* exitCode variable the stdout goroutine assigns
ExAfterReceive(c, loc, run) ==
    IF loc.stdoutReceived /\ loc.stderrReceived
    THEN ExecuteReturns(c, ex_cur[c],
            CommandResult(loc.stdoutBuilder, loc.stderrBuilder, run.exitCode))
    ELSE /\ ex_loc' = [ex_loc EXCEPT ![c] = loc]
         /\ ex_run' = [ex_run EXCEPT ![ex_cur[c]] = run]
         /\ UNCHANGED <<ex_mu, ex_pc, ex_arg, ex_cur, ex_so, ex_se>>

\* case stdout := <-stdoutChan
ExRecvStdout(c) ==
    /\ ex_pc[c] = "wait"
    /\ LET run == ex_run[ex_cur[c]]
       IN  /\ run.stdoutChan # <<>>
           /\ ExAfterReceive(c,
                 [ex_loc[c] EXCEPT !.stdoutBuilder = @ \o Head(run.stdoutChan),
                                   !.stdoutReceived = TRUE],
                 [run EXCEPT !.stdoutChan = Tail(@)])
    /\ UNCHANGED <<ex_calls, ex_nruns, exRemote, exStreams, notExVars>>

\* case stderr := <-stderrChan
ExRecvStderr(c) ==
    /\ ex_pc[c] = "wait"
    /\ LET run == ex_run[ex_cur[c]]
       IN  /\ run.stderrChan # <<>>
           /\ ExAfterReceive(c,
                 [ex_loc[c] EXCEPT !.stderrBuilder = @ \o Head(run.stderrChan),
                                   !.stderrReceived = TRUE],
                 [run EXCEPT !.stderrChan = Tail(@)])
    /\ UNCHANGED <<ex_calls, ex_nruns, exRemote, exStreams, notExVars>>

\* `case err := <-errChan` taken for an output: the run goes on to a result
ExRecvErrAsOutput(c) ==
    /\ ex_pc[c] = "wait"
    /\ ex_run[ex_cur[c]].errChan # <<>>
    /\ ExecuteReturns(c, ex_cur[c],
          CommandResult(ex_loc[c].stdoutBuilder, ex_loc[c].stderrBuilder, 0))
    /\ UNCHANGED <<ex_calls, ex_nruns, exRemote, exStreams, notExVars>>

\* case err := <-errChan: return nil, fmt.Errorf("read error: %w", err)
ExRecvErr(c) ==
    /\ ex_pc[c] = "wait"
    /\ ex_run[ex_cur[c]].errChan # <<>>
    /\ ExecuteReturns(c, ex_cur[c], StreamError)
    /\ UNCHANGED <<ex_calls, ex_nruns, exRemote, exStreams, notExVars>>

\* the select loop without its `case <-timeout`
ExTimeoutDropped(c) ==
    /\ ex_pc[c] = "wait"
    /\ FALSE
    /\ UNCHANGED vars

\* case <-timeout: return nil, fmt.Errorf("command execution timed out").
\* Both timers start when the goroutines do: the command timeout cannot pass
\* before readStderr's deadline has, unless readStderr is held in a read
ExTimeout(c) ==
    /\ ex_pc[c] = "wait"
    /\ stderrReadTimeout < defaultCommandTimeout =>
          (ex_se[ex_cur[c]].pc # "poll" \/ StderrReadBlocked)
    /\ ExecuteReturns(c, ex_cur[c], CommandTimeout)
    /\ UNCHANGED <<ex_calls, ex_nruns, exRemote, exStreams, notExVars>>

\* whether the Execute call of run r is still waiting for its goroutines
Waiting(r) == \E c \in Callers : ex_cur[c] = r /\ ex_pc[c] = "wait"

\* the goroutine `go func() { output, code, err := e.readUntilDelimiter(...) ...`:
\* one pass of readUntilDelimiter's loop and, when it returns, the send on
\* errChan or on stdoutChan
SoRead(r) ==
    /\ ex_so[r].pc = "loop"
    /\ Readable(ex_stdout, ex_end)
    /\ LET b  == BufioReadString(ex_stdout, ex_end)
           st == ReadIteration(ex_so[r].st, b.rs, ex_run[r].delimiter)
       IN  /\ ex_stdout' = b.rdr
           /\ IF ~Waiting(r)
              THEN /\ ex_so' = [ex_so EXCEPT ![r] =
                          IF st.pc = "return" THEN NoReader ELSE @]
                   /\ UNCHANGED ex_run
              ELSE IF st.pc # "return"
              THEN /\ ex_so' = [ex_so EXCEPT ![r].st = st]
                   /\ UNCHANGED ex_run
              ELSE IF st.err # "nil"
              THEN /\ ex_so' = [ex_so EXCEPT ![r] = [pc |-> "done", st |-> st]]
                   /\ ex_run' = [ex_run EXCEPT ![r].errChan = Append(@, st.err)]
              ELSE /\ ex_so' = [ex_so EXCEPT ![r] = [pc |-> "assign", st |-> st]]
                   /\ ex_run' = [ex_run EXCEPT ![r].stdoutChan = Append(@, st.output)]
    /\ UNCHANGED <<ex_mu, exCaller, ex_se, exRemote, ex_stderr, ex_end, notExVars>>

\* the statement after the send: exitCode = code
SoAssign(r) ==
    /\ ex_so[r].pc = "assign"
    /\ ex_run' = [ex_run EXCEPT ![r].exitCode = ex_so[r].st.exitCode]
    /\ ex_so' = [ex_so EXCEPT ![r].pc = "done"]
    /\ UNCHANGED <<ex_mu, exCaller, ex_se, exRemote, exStreams, notExVars>>

\* readStderr, one pass of `for time.Now().Before(deadline)`: a line is read
\* when reader.Buffered() > 0, else the goroutine sleeps pollInterval
SeLoop(r) ==
    /\ ex_se[r].pc = "poll"
    /\ IF Buffered(ex_stderr) > 0
       THEN /\ Readable(ex_stderr, ex_end)
            /\ LET b == BufioReadString(ex_stderr, ex_end)
               IN  /\ ex_stderr' = b.rdr
                   /\ IF ~Waiting(r)
                      THEN /\ ex_se' = [ex_se EXCEPT ![r] =
                                  IF b.rs.err = "nil" THEN @ ELSE NoStderrReader]
                           /\ UNCHANGED ex_run
                      ELSE IF b.rs.err = "error"
                      THEN /\ ex_se' = [ex_se EXCEPT ![r].pc = "done"]
                           /\ ex_run' = [ex_run EXCEPT ![r].errChan = Append(@, "error")]
                      ELSE IF b.rs.err = "EOF"
                      THEN /\ ex_se' = [ex_se EXCEPT ![r] =
                                  [pc |-> "done", output |-> @.output \o b.rs.line]]
                           /\ ex_run' = [ex_run EXCEPT ![r].stderrChan =
                                  Append(@, ex_se[r].output \o b.rs.line)]
                      ELSE /\ ex_se' = [ex_se EXCEPT ![r].output = @ \o b.rs.line]
                           /\ UNCHANGED ex_run
       ELSE UNCHANGED <<ex_stderr, ex_se, ex_run>>
    /\ UNCHANGED <<ex_mu, exCaller, ex_so, exRemote, ex_stdout, ex_end, notExVars>>

\* readStderr's deadline has passed: return output.String(), nil; then
\* stderrChan <- output
SeDeadline(r) ==
    /\ ex_se[r].pc = "poll"
    /\ ~StderrReadBlocked
    /\ IF Waiting(r)
       THEN /\ ex_se' = [ex_se EXCEPT ![r].pc = "done"]
            /\ ex_run' = [ex_run EXCEPT ![r].stderrChan = Append(@, ex_se[r].output)]
       ELSE /\ ex_se' = [ex_se EXCEPT ![r] = NoStderrReader]
            /\ UNCHANGED ex_run
    /\ UNCHANGED <<ex_mu, exCaller, ex_so, exRemote, exStreams, notExVars>>

\* the remote shell reads the next line of its input and runs it
ShellStep ==
    /\ ex_shell.alive
    /\ ex_end = "open"
    /\ ex_stdin # <<>>
    /\ LET chunk == Head(ex_stdin)
           run   == IF chunk.kind = "cmd" THEN ShellRun(chunk.text, ex_shell.foo)
                    ELSE [foo |-> ex_shell.foo, status |-> 0,
                          out |-> chunk.text \o <<":">> \o Itoa(ex_shell.status)
                                    \o <<"\n">>,
                          err |-> <<>>]
       IN  /\ ex_shell' = [ex_shell EXCEPT !.foo = run.foo, !.status = run.status]
           /\ ex_stdout' = [ex_stdout EXCEPT !.pipe = @ \o run.out]
           /\ ex_stderr' = [ex_stderr EXCEPT !.pipe = @ \o run.err]
           /\ ex_log' = IF chunk.kind = "cmd"
                        THEN Append(ex_log, [run |-> chunk.run, cmd |-> chunk.text,
                                             before |-> ex_shell.foo, after |-> run.foo])
                        ELSE ex_log
    /\ ex_stdin' = Tail(ex_stdin)
    /\ UNCHANGED <<ex_mu, exCaller, ex_run, ex_so, ex_se, ex_written, ex_end,
                   notExVars>>

\* the remote side ends the session (the shell exits, or the connection breaks)
RemoteEnd ==
    /\ ex_end = "open"
    /\ ex_end' \in {"EOF", "error"}
    /\ ex_shell' = [ex_shell EXCEPT !.alive = FALSE]
    /\ UNCHANGED <<ex_mu, exCaller, ex_run, ex_so, ex_se, ex_stdin, ex_written,
                   ex_log, ex_stdout, ex_stderr, notExVars>>

CallerStep(c) ==
    \/ \E command \in Commands : ExCall(c, command)
    \/ ExLock(c)
    \/ ExWriteCommand(c)
    \/ ExWriteEcho(c)
    \/ ExRecvStdout(c)
    \/ ExRecvStderr(c)
    \/ ExRecvErr(c)
    \/ ExTimeout(c)

NextExec ==
    \/ \E c \in Callers : CallerStep(c)
    \/ \E r \in Runs : SoRead(r) \/ SoAssign(r) \/ SeLoop(r) \/ SeDeadline(r)
    \/ ShellStep
    \/ RemoteEnd

SpecExec == InitExec /\ [][NextExec]_vars

\* what the Go scheduler and the timers guarantee: a caller inside Execute is
\* not held up for ever when it can take a step (the lock is free, the write
\* ends, a channel or the timer is ready), and readStderr's deadline passes
CallerProgress(c) ==
    \/ ExLock(c)
    \/ ExWriteCommand(c)
    \/ ExWriteEcho(c)
    \/ ExRecvStdout(c)
    \/ ExRecvStderr(c)
    \/ ExRecvErr(c)
    \/ ExTimeout(c)

FairSpecExec ==
    /\ SpecExec
    /\ \A c \in Callers : WF_vars(CallerProgress(c))
    /\ \A r \in Runs : WF_vars(SeDeadline(r))

(***************************************************************************)
(* Spec: the HostValidator.                                                *)
(***************************************************************************)
\* a match compiled with "." as a separator: `*` stops at a dot
RECURSIVE GlobMatchStarStopsAtDot(_, _)
GlobMatchStarStopsAtDot(pattern, host) ==
    IF pattern = <<>> THEN host = <<>>
    ELSE IF Head(pattern) = "*"
         THEN \/ GlobMatchStarStopsAtDot(Tail(pattern), host)
              \/ /\ host # <<>>
                 /\ Head(host) # "."
                 /\ GlobMatchStarStopsAtDot(pattern, Tail(host))
         ELSE /\ host # <<>>
              /\ Head(host) = Head(pattern)
              /\ GlobMatchStarStopsAtDot(Tail(pattern), Tail(host))

\* pattern.Match(host) of gobwas/glob, for patterns of literals and `*` (any
\* run of characters: the patterns are compiled without separators)
RECURSIVE GlobMatch(_, _)
GlobMatch(pattern, host) ==
    IF pattern = <<>> THEN host = <<>>
    ELSE IF Head(pattern) = "*"
         THEN \/ GlobMatch(Tail(pattern), host)
              \/ host # <<>> /\ GlobMatch(pattern, Tail(host))
         ELSE /\ host # <<>>
              /\ Head(host) = Head(pattern)
              /\ GlobMatch(Tail(pattern), Tail(host))

\* a NewHostValidator that compiles the segments as they are, blanks and all
NewHostValidatorUntrimmed(allowedHosts) ==
    SelectSeq(Split(allowedHosts, ","), LAMBDA host : host # <<>>)

\* NewHostValidator: the patterns of a comma-separated list, each trimmed, the
\* empty ones skipped
NewHostValidator(allowedHosts) ==
    LET hosts == Split(allowedHosts, ",")
        trimmed == [i \in 1..Len(hosts) |-> TrimSpace(hosts[i])]
    IN  SelectSeq(trimmed, LAMBDA host : host # <<>>)

\* (v *HostValidator) Validate
Validate(patterns, host) ==
    IF host = <<>> THEN "HostEmpty"
    ELSE IF \E i \in 1..Len(patterns) : GlobMatch(patterns[i], host)
         THEN "nil"
         ELSE "HostDenied"

\* the server's --allowed-hosts: "h, *.x"
AllowedHosts == <<"h", ",", " ", "*", ".", "x">>

\* the hosts callers pass: "", "h", "a.x", "e"
Hosts == {<<>>, <<"h">>, <<"a", ".", "x">>, <<"e">>}

\* m.validator, as main builds it from --allowed-hosts, and what it says of
\* each host
HostVerdict == [host \in Hosts |-> Validate(NewHostValidator(AllowedHosts), host)]

(***************************************************************************)
(* SpecValidate: NewHostValidator and Validate on their own, over every    *)
(* allowedHosts text made of a few pieces and every host of a small set.   *)
(***************************************************************************)

MaxSpecPieces == 4

\* the pieces of an allowedHosts text: two hosts that differ in case only, the
\* wildcard alone and in front of a domain ("x" stands for a domain such as
\* example.com), the separator, a blank, and "[", which opens a character class
\* that nothing closes
SpecPieces == { <<"h">>, <<"H">>, <<"*">>, <<"*", ".", "x">>, <<",">>, <<" ">>,
                <<"[">> }

AllowSpecs ==
    { Flatten(ps) : ps \in UNION { [1..n -> SpecPieces] : n \in 0..MaxSpecPieces } }

\* the hosts Validate is asked about: "", "h", "H", "hh", "x", ".x", "a.x",
\* "a.b.x"
HostInputs == { <<>>, <<"h">>, <<"H">>, <<"h", "h">>, <<"x">>, <<".", "x">>,
                <<"a", ".", "x">>, <<"a", ".", "b", ".", "x">> }

\* glob.Compile(host) returns an error: of the model's alphabet, only a "["
\* that is never closed makes a pattern the compiler refuses
CompileFails(host) == \E i \in 1..Len(host) : host[i] = "["

\* the error NewHostValidator returns, "nil" when it returns a validator
NewHostValidatorError(allowedHosts) ==
    IF allowedHosts = <<>> THEN "NoAllowedHosts"
    ELSE LET patterns == NewHostValidator(allowedHosts)
         IN  IF \E i \in 1..Len(patterns) : CompileFails(patterns[i])
             THEN "InvalidPattern"
             ELSE IF Len(patterns) = 0 THEN "NoValidPatterns"
                  ELSE "nil"

NoValidator == [err |-> "none", patterns |-> <<>>]

InitValidate ==
    /\ vl_spec \in AllowSpecs
    /\ vl_host \in HostInputs
    /\ vl_val = NoValidator
    /\ vl_res = "none"
    /\ RdIdle
    /\ ExIdle
    /\ MgIdle
    /\ HdIdle
    /\ NsIdle
    /\ TkIdle
    /\ SzIdle
    /\ ClIdle
    /\ RcIdle

\* validator, err := NewHostValidator(allowedHosts)
VlNew ==
    /\ vl_val = NoValidator
    /\ LET err == NewHostValidatorError(vl_spec)
       IN  vl_val' = [err |-> err,
                      patterns |-> IF err = "nil" THEN NewHostValidator(vl_spec)
                                   ELSE <<>>]
    /\ UNCHANGED <<vl_spec, vl_host, vl_res, notVlVars>>

\* validator.Validate(host)
VlValidate ==
    /\ vl_val.err = "nil"
    /\ vl_res = "none"
    /\ vl_res' = Validate(vl_val.patterns, vl_host)
    /\ UNCHANGED <<vl_spec, vl_host, vl_val, notVlVars>>

NextValidate == VlNew \/ VlValidate

SpecValidate == InitValidate /\ [][NextValidate]_vars

(***************************************************************************)
(* Spec: the Manager.                                                      *)
(***************************************************************************)
\* the ids of m.connections
Registered(reg) == {id \in IDs : reg[id] # 0}

\* the limit check with > for >=
AtCapacityOffByOne(n) == n > MaxConnections

\* len(m.connections) >= MaxConnections
AtCapacity(n) == n >= MaxConnections

\* a Connect that does not look for the id in the map
ConnectChecksNoDuplicate(reg, id, host, password, keyPath, keyFile) ==
    IF AtCapacity(Cardinality(Registered(reg))) THEN "CapacityExceeded"
    ELSE IF HostVerdict[host] # "nil" THEN HostVerdict[host]
    ELSE IF keyPath # "" /\ keyFile = "unreadable" THEN "KeyReadError"
    ELSE IF keyPath # "" /\ keyFile = "unparsable" THEN "KeyParseError"
    ELSE IF password = "" /\ keyPath = "" THEN "NoAuth"
    ELSE "nil"

\* a Connect that does not consult the validator
ConnectChecksAnyHost(reg, id, host, password, keyPath, keyFile) ==
    IF AtCapacity(Cardinality(Registered(reg))) THEN "CapacityExceeded"
    ELSE IF reg[id] # 0 THEN "DuplicateID"
    ELSE IF keyPath # "" /\ keyFile = "unreadable" THEN "KeyReadError"
    ELSE IF keyPath # "" /\ keyFile = "unparsable" THEN "KeyParseError"
    ELSE IF password = "" /\ keyPath = "" THEN "NoAuth"
    ELSE "nil"

\* Connect up to the dial: the error it returns, or "nil". keyFile says what
\* os.ReadFile and ssh.ParsePrivateKey make of the file at keyPath
ConnectChecks(reg, id, host, password, keyPath, keyFile) ==
    IF AtCapacity(Cardinality(Registered(reg))) THEN "CapacityExceeded"
    ELSE IF reg[id] # 0 THEN "DuplicateID"
    ELSE IF HostVerdict[host] # "nil" THEN HostVerdict[host]
    ELSE IF keyPath # "" /\ keyFile = "unreadable" THEN "KeyReadError"
    ELSE IF keyPath # "" /\ keyFile = "unparsable" THEN "KeyParseError"
    ELSE IF password = "" /\ keyPath = "" THEN "NoAuth"
    ELSE "nil"

\* Connect that registers the connection before it dials
ConnectNextStoresFirst(step) == "c_store"

\* the order of Connect's steps after the checks: ssh.Dial, NewShellExecutor,
\* m.connections[id] = ...
ConnectNext(step) ==
    CASE step = "c_lock" -> "c_dial"
      [] step = "c_dial" -> "c_shell"
      [] step = "c_shell" -> "c_store"

\* what a call returned: the error (or "nil", or Execute's outcome); for
\* Connect whether the id was registered when it took m.mu and what
\* m.connections was then; for List the ids
Ret(p, op, id, kind, dup, ids, before) ==
    [proc |-> p, op |-> op, id |-> id, kind |-> kind, dup |-> dup, ids |-> ids,
     before |-> before]

\* the objects nothing refers to any more are gone, unless their client is
\* still open: an SSH connection nobody closed stays
Collect(objs, reg, ptrs) ==
    [h \in Handles |->
        IF \/ \E id \in IDs : reg[id] = h
           \/ \E p \in Procs : ptrs[p] = h
           \/ objs[h].client = "open"
        THEN objs[h]
        ELSE NoConn]

\* the handles free for a new connection
FreeHandles ==
    {h \in Handles : /\ heap[h] = NoConn
                     /\ \A id \in IDs : connections[id] # h
                     /\ \A p \in Procs : m_conn[p] # h}

\* the calls each caller makes: p1 and p2 open and close, p2 and p3 run
\* commands, p1 and p3 list, p1 shuts down
Calls(p) ==
    CASE p = "p1" -> {"connect", "close", "closeAll", "list"}
      [] p = "p2" -> {"connect", "close", "execute"}
      [] p = "p3" -> {"execute", "list"}

\* the caller is back in its own code with `result`
Returns(p, result) ==
    /\ m_pc' = [m_pc EXCEPT ![p] = "idle"]
    /\ m_id' = [m_id EXCEPT ![p] = 0]
    /\ m_snap' = [m_snap EXCEPT ![p] = <<>>]
    /\ m_host' = [m_host EXCEPT ![p] = <<>>]
    /\ m_ret' = result

\* the errors Connect's checks can give a caller that passes `id` and `host`:
\* keyFile says what os.ReadFile and ssh.ParsePrivateKey make of the file at
\* keyPath
CheckErrors(reg, id, host) ==
    {ConnectChecks(reg, id, host, password, keyPath, keyFile) :
        password \in {"", "pw"}, keyPath \in {"", "k"},
        keyFile \in {"ok", "unreadable", "unparsable"}}

\* m.Connect(id, ...): m.mu.Lock() and everything up to the dial: the limit,
\* the duplicate id, the host, the authentication methods
Connect(p, id) ==
    /\ "connect" \in Calls(p)
    /\ m_pc[p] = "idle"
    /\ mu = None
    /\ \E host \in Hosts : \E err \in CheckErrors(connections, id, host) :
          IF err # "nil"
          THEN /\ Returns(p, Ret(p, "connect", id, err, connections[id] # 0, {},
                                 connections))
               /\ UNCHANGED <<connections, mu, heap, m_conn>>
          ELSE /\ FreeHandles # {}
               /\ mu' = p
               /\ m_id' = [m_id EXCEPT ![p] = id]
               /\ m_snap' = [m_snap EXCEPT ![p] = connections]
               /\ m_host' = [m_host EXCEPT ![p] = <<host>>]
               /\ m_conn' = [m_conn EXCEPT
                               ![p] = CHOOSE h \in FreeHandles :
                                         \A g \in FreeHandles : h <= g]
               /\ m_pc' = [m_pc EXCEPT ![p] = ConnectNext("c_lock")]
               /\ m_ret' = NoReturn
               /\ UNCHANGED <<connections, heap>>
    /\ UNCHANGED notMgVars

\* a Connect that leaves the client open when NewShellExecutor failed
ClientLeftOpen(obj) == obj

\* _ = client.Close() after NewShellExecutor failed (there is no client after
\* a failed dial)
ClientClosed(obj) ==
    [obj EXCEPT !.client = IF obj.client = "open" THEN "closed" ELSE obj.client]

\* Connect returns an error after the checks: nothing was stored, the objects
\* made so far are dropped, the deferred Unlock runs
ConnectFails(p, err) ==
    /\ Returns(p, Ret(p, "connect", m_id[p], err, m_snap[p][m_id[p]] # 0, {},
                      m_snap[p]))
    /\ m_conn' = [m_conn EXCEPT ![p] = 0]
    /\ heap' = Collect([heap EXCEPT ![m_conn[p]] = ClientClosed(heap[m_conn[p]])],
                       connections, [m_conn EXCEPT ![p] = 0])
    /\ mu' = None
    /\ UNCHANGED connections

\* client, err := ssh.Dial("tcp", addr, config)
ConnectDial(p) ==
    /\ m_pc[p] = "c_dial"
    /\ \E ok \in BOOLEAN :
          IF ok
          THEN /\ heap' = [heap EXCEPT ![m_conn[p]].client = "open"]
               /\ m_pc' = [m_pc EXCEPT ![p] = ConnectNext("c_dial")]
               /\ m_ret' = NoReturn
               /\ UNCHANGED <<connections, mu, m_id, m_conn, m_snap, m_host>>
          ELSE ConnectFails(p, "DialError")
    /\ UNCHANGED notMgVars

\* executor, err := NewShellExecutor(client): the session, the pipes, the
\* shell or the write of the init commands may fail, and then client.Close()
ConnectShell(p) ==
    /\ m_pc[p] = "c_shell"
    /\ \E outcome \in {"ok", "session", "pipe", "shell", "write"} :
          IF outcome = "ok"
          THEN /\ heap' = [heap EXCEPT ![m_conn[p]].executor = "ready"]
               /\ m_pc' = [m_pc EXCEPT ![p] = ConnectNext("c_shell")]
               /\ m_ret' = NoReturn
               /\ UNCHANGED <<connections, mu, m_id, m_conn, m_snap, m_host>>
          ELSE ConnectFails(p, "ShellError")
    /\ UNCHANGED notMgVars

\* m.connections[id] = &Connection{...}; return nil
ConnectStore(p) ==
    /\ m_pc[p] = "c_store"
    /\ connections' = [connections EXCEPT ![m_id[p]] = m_conn[p]]
    /\ m_conn' = [m_conn EXCEPT ![p] = 0]
    /\ Returns(p, Ret(p, "connect", m_id[p], "nil", m_snap[p][m_id[p]] # 0, {},
                      m_snap[p]))
    /\ mu' = None
    /\ UNCHANGED <<heap, notMgVars>>

\* a call of m.Execute(id, command), up to m.mu.RLock()
Execute(p, id) ==
    /\ "execute" \in Calls(p)
    /\ m_pc[p] = "idle"
    /\ m_pc' = [m_pc EXCEPT ![p] = "e_lookup"]
    /\ m_id' = [m_id EXCEPT ![p] = id]
    /\ m_ret' = NoReturn
    /\ UNCHANGED <<connections, mu, heap, m_conn, m_snap, m_host, notMgVars>>

\* a lookup that takes whatever connection the map has
LookupAny(reg, id) ==
    IF Registered(reg) = {} THEN 0 ELSE reg[CHOOSE i \in Registered(reg) : TRUE]

\* conn, exists := m.connections[id]: the connection, or 0 for !exists
Lookup(reg, id) == reg[id]

\* m.mu.RLock(); conn, exists := m.connections[id]; m.mu.RUnlock(); and the
\* not-found return. RLock waits while a writer holds m.mu
ExecuteLookup(p) ==
    /\ m_pc[p] = "e_lookup"
    /\ mu = None
    /\ IF Lookup(connections, m_id[p]) = 0
       THEN /\ Returns(p, Ret(p, "execute", m_id[p], "NotFound", FALSE, {}, <<>>))
            /\ UNCHANGED m_conn
       ELSE /\ m_conn' = [m_conn EXCEPT ![p] = Lookup(connections, m_id[p])]
            /\ m_pc' = [m_pc EXCEPT ![p] = "e_lock"]
            /\ m_ret' = NoReturn
            /\ UNCHANGED <<m_id, m_snap, m_host>>
    /\ UNCHANGED <<connections, mu, heap, notMgVars>>

\* conn.executor.Execute(command): e.mu.Lock()
ExecuteLock(p) ==
    /\ m_pc[p] = "e_lock"
    /\ heap[m_conn[p]].emu = None
    /\ heap' = [heap EXCEPT ![m_conn[p]].emu = p]
    /\ m_pc' = [m_pc EXCEPT ![p] = "e_run"]
    /\ m_ret' = NoReturn
    /\ UNCHANGED <<connections, mu, m_id, m_conn, m_snap, m_host, notMgVars>>

\* an Execute whose write to stdin succeeds on a closed executor too
ExecuteOutcomesAfterClose(executor) ==
    {"ok", "InvalidCommand", "WriteError", "StreamError", "CommandTimeout"}

\* the outcomes of ShellExecutor.Execute once it holds e.mu (SpecExec has the
\* run itself): on a closed executor the write to stdin fails
ExecuteOutcomes(executor) ==
    IF executor = "closed"
    THEN {"InvalidCommand", "WriteError"}
    ELSE {"ok", "InvalidCommand", "WriteError", "StreamError", "CommandTimeout"}

\* an Execute that returns without releasing e.mu
UnlockedNot(obj) == obj

\* defer e.mu.Unlock()
Unlocked(obj) == [obj EXCEPT !.emu = None]

\* conn.executor.Execute(command) returns, with the deferred e.mu.Unlock()
ExecuteDone(p) ==
    /\ m_pc[p] = "e_run"
    /\ \E kind \in ExecuteOutcomes(heap[m_conn[p]].executor) :
          Returns(p, Ret(p, "execute", m_id[p], kind, FALSE, {}, <<>>))
    /\ m_conn' = [m_conn EXCEPT ![p] = 0]
    /\ heap' = Collect([heap EXCEPT ![m_conn[p]] = Unlocked(heap[m_conn[p]])],
                       connections, [m_conn EXCEPT ![p] = 0])
    /\ UNCHANGED <<connections, mu, notMgVars>>

\* m.Close(id): m.mu.Lock(); conn, exists := m.connections[id]; and the
\* not-found return
Close(p, id) ==
    /\ "close" \in Calls(p)
    /\ m_pc[p] = "idle"
    /\ mu = None
    /\ IF connections[id] = 0
       THEN /\ Returns(p, Ret(p, "close", id, "NotFound", FALSE, {}, <<>>))
            /\ UNCHANGED <<mu, m_conn>>
       ELSE /\ mu' = p
            /\ m_id' = [m_id EXCEPT ![p] = id]
            /\ m_conn' = [m_conn EXCEPT ![p] = connections[id]]
            /\ m_pc' = [m_pc EXCEPT ![p] = "x_exec"]
            /\ m_ret' = NoReturn
            /\ UNCHANGED <<m_snap, m_host>>
    /\ UNCHANGED <<connections, heap, notMgVars>>

\* a teardown that closes nothing
ClosedNot(obj) == obj

\* conn.executor.Close() (which takes e.mu, closes stdin and the session),
\* conn.client.Close()
Closed(obj) == [obj EXCEPT !.client = "closed", !.executor = "closed"]

\* a teardown that gives up its entry's removal when a Close reports an error
DeletesOnlyAfterCleanClose(reg, id, executorErr, clientErr) ==
    IF executorErr \/ clientErr THEN reg ELSE [reg EXCEPT ![id] = 0]

\* _ = conn.executor.Close(); _ = conn.client.Close(); delete(m.connections,
\* id): the errors of the two Close calls are dropped
Deletes(reg, id, executorErr, clientErr) == [reg EXCEPT ![id] = 0]

\* Close once e.mu is free: the executor and the client are closed (either
\* Close may report an error), the id is deleted, m.mu is released
CloseExecutor(p) ==
    /\ m_pc[p] = "x_exec"
    /\ heap[m_conn[p]].emu = None
    /\ \E executorErr \in BOOLEAN, clientErr \in BOOLEAN :
          LET reg == Deletes(connections, m_id[p], executorErr, clientErr)
          IN  /\ connections' = reg
              /\ heap' = Collect([heap EXCEPT
                                    ![m_conn[p]] = Closed(heap[m_conn[p]])],
                                 reg, [m_conn EXCEPT ![p] = 0])
    /\ m_conn' = [m_conn EXCEPT ![p] = 0]
    /\ Returns(p, Ret(p, "close", m_id[p], "nil", FALSE, {}, <<>>))
    /\ mu' = None
    /\ UNCHANGED notMgVars

\* a List that also reports the ids of the connections callers still hold
InfosWithPending(reg) ==
    Registered(reg) \cup {m_id[p] : p \in {q \in Procs : m_conn[q] # 0}}

\* infos = append(infos, conn.Info) for every conn of m.connections: the
\* ConnectionInfo values (here their IDs), not the connections
Infos(reg) == Registered(reg)

\* m.List(): RLock, copy the Info of every connection, RUnlock
List(p) ==
    /\ "list" \in Calls(p)
    /\ m_pc[p] = "idle"
    /\ mu = None
    /\ m_ret' = Ret(p, "list", 0, "nil", FALSE, Infos(connections), <<>>)
    /\ UNCHANGED <<connections, mu, heap, m_pc, m_id, m_conn, m_snap, m_host,
                   notMgVars>>

\* m.CloseAll(): m.mu.Lock() and the first `for id, conn := range
\* m.connections` (Go ranges over a map in no fixed order)
CloseAll(p) ==
    /\ "closeAll" \in Calls(p)
    /\ m_pc[p] = "idle"
    /\ mu = None
    /\ IF Registered(connections) = {}
       THEN /\ Returns(p, Ret(p, "closeAll", 0, "nil", FALSE, {}, <<>>))
            /\ UNCHANGED <<mu, m_conn>>
       ELSE /\ mu' = p
            /\ \E id \in Registered(connections) :
                  /\ m_id' = [m_id EXCEPT ![p] = id]
                  /\ m_conn' = [m_conn EXCEPT ![p] = connections[id]]
            /\ m_pc' = [m_pc EXCEPT ![p] = "a_exec"]
            /\ m_ret' = NoReturn
            /\ UNCHANGED <<m_snap, m_host>>
    /\ UNCHANGED <<connections, heap, notMgVars>>

\* one pass of CloseAll's loop once e.mu is free: close, delete, and go on to
\* the next entry or return
CloseAllExecutor(p) ==
    /\ m_pc[p] = "a_exec"
    /\ heap[m_conn[p]].emu = None
    /\ \E executorErr \in BOOLEAN, clientErr \in BOOLEAN :
       LET reg == Deletes(connections, m_id[p], executorErr, clientErr)
           objs == [heap EXCEPT ![m_conn[p]] = Closed(heap[m_conn[p]])]
       IN  /\ connections' = reg
           /\ IF Registered(reg) = {}
              THEN /\ m_conn' = [m_conn EXCEPT ![p] = 0]
                   /\ heap' = Collect(objs, reg, [m_conn EXCEPT ![p] = 0])
                   /\ Returns(p, Ret(p, "closeAll", 0, "nil", FALSE, {}, <<>>))
                   /\ mu' = None
              ELSE /\ \E id \in Registered(reg) :
                         /\ m_id' = [m_id EXCEPT ![p] = id]
                         /\ m_conn' = [m_conn EXCEPT ![p] = reg[id]]
                         /\ heap' = Collect(objs, reg,
                                            [m_conn EXCEPT ![p] = reg[id]])
                   /\ m_ret' = NoReturn
                   /\ UNCHANGED <<mu, m_pc, m_snap, m_host>>
    /\ UNCHANGED notMgVars

Init ==
    /\ RdIdle /\ ExIdle /\ MgIdle /\ VlIdle
    /\ HdIdle /\ NsIdle /\ TkIdle /\ SzIdle /\ ClIdle /\ RcIdle

Next ==
    \E p \in Procs :
        \/ \E id \in IDs : Connect(p, id)
        \/ ConnectDial(p)
        \/ ConnectShell(p)
        \/ ConnectStore(p)
        \/ \E id \in IDs : Execute(p, id)
        \/ ExecuteLookup(p)
        \/ ExecuteLock(p)
        \/ ExecuteDone(p)
        \/ \E id \in IDs : Close(p, id)
        \/ CloseExecutor(p)
        \/ List(p)
        \/ CloseAll(p)
        \/ CloseAllExecutor(p)

Spec == Init /\ [][Next]_vars

(***************************************************************************)
(* SpecHandlers: the four tool handlers, one request at a time, in front   *)
(* of a Manager whose calls are taken whole.  A string of a request is a   *)
(* sequence of runs <<character, count>>, so that a connection_id of 129   *)
(* bytes and a command of more than 1 MiB are values of the model.         *)
(***************************************************************************)
maxConnectionIDLength == 128

maxPort == 65535

maxCommandLength == 1048576

defaultPort == 22

MaxWritten == 1

Run(c, n) == <<c, n>>

\* len(s)
RECURSIVE StrLen(_)
StrLen(s) == IF s = <<>> THEN 0 ELSE Head(s)[2] + StrLen(Tail(s))

\* the characters `range s` yields
Chars(s) == {s[i][1] : i \in 1..Len(s)}

\* a-z, A-Z, 0-9, '-' and '_', of the characters the model uses
IsIDChar(r) == r \in {"a", "z", "A", "Z", "0", "9", "-", "_"}

validateConnectionID(id) ==
    IF StrLen(id) = 0 THEN "IDEmpty"
    ELSE IF StrLen(id) > maxConnectionIDLength THEN "IDTooLong"
    ELSE IF \E r \in Chars(id) : ~IsIDChar(r) THEN "IDInvalidCharacters"
    ELSE "nil"

validatePort(port) ==
    IF port < 1 \/ port > maxPort THEN "PortOutOfRange" ELSE "nil"

\* a validateCommand that only refuses the empty command
validateCommandNonEmpty(cmd) ==
    IF StrLen(cmd) = 0 THEN "CommandEmpty" ELSE "nil"

validateCommand(cmd) ==
    IF StrLen(cmd) = 0 THEN "CommandEmpty"
    ELSE IF StrLen(cmd) > maxCommandLength THEN "CommandTooLong"
    ELSE "nil"

validateAuthMethod(password, privateKeyPath) ==
    IF password = "" /\ privateKeyPath = "" THEN "NoAuthMethod" ELSE "nil"

\* req.GetString(name, default) and req.GetFloat(name, default)
GetValue(arg, default) == IF arg = <<>> THEN default ELSE arg[1]

\* a JSON number is kept in tenths; int(f) drops the fraction, towards zero
Tenths(n) == 10 * n

IntOf(f) == IF f >= 0 THEN f \div 10 ELSE -((-f) \div 10)

\* return mcp.NewToolResultError(text), <the error>
FailsWithGoError(text) ==
    [result |-> [isError |-> TRUE, text |-> text], err |-> text]

\* return mcp.NewToolResultError(text), nil
Fails(text) == [result |-> [isError |-> TRUE, text |-> text], err |-> "nil"]

\* return mcp.NewToolResultText(string(jsonResponse)), nil
Succeeds == [result |-> [isError |-> FALSE, text |-> "success"], err |-> "nil"]

\* the ids requests carry that pass validateConnectionID: "a", "A-_0", and
\* "z" 128 times; each is a key of m.connections
IDTexts ==
    << <<Run("a", 1)>>,
       <<Run("A", 1), Run("-", 1), Run("_", 1), Run("0", 1)>>,
       <<Run("z", maxConnectionIDLength)>> >>

IdOf(text) == CHOOSE id \in 1..Len(IDTexts) : IDTexts[id] = text

\* and those that do not: "", "a!", "a" 129 times
BadIDTexts ==
    { <<>>, <<Run("a", 1), Run("!", 1)>>, <<Run("a", maxConnectionIDLength + 1)>> }

IDArgs ==
    {<<>>} \cup {<<IDTexts[i]>> : i \in 1..Len(IDTexts)} \cup {<<t>> : t \in BadIDTexts}

\* host: missing, a blank, or one of Hosts (the empty one included)
HostArgs == {<<>>, << <<" ">> >>} \cup {<<host>> : host \in Hosts}

UsernameArgs == {<<>>, << <<" ">> >>, << <<"u">> >>}

\* port: missing, 0, 0.5, 1, 65535, 65535.5, 65536
PortArgs ==
    {<<>>, <<Tenths(0)>>, <<5>>, <<Tenths(1)>>, <<Tenths(maxPort)>>,
     <<Tenths(maxPort) + 5>>, <<Tenths(maxPort + 1)>>}

PasswordArgs == {<<>>, <<"pw">>}

KeyPathArgs == {<<>>, <<"k">>}

\* command: missing, "", "x", 1 MiB of "x", 1 MiB and one byte
CommandArgs ==
    {<<>>, << <<>> >>, << <<Run("x", 1)>> >>, << <<Run("x", maxCommandLength)>> >>,
     << <<Run("x", maxCommandLength + 1)>> >>}

\* a request HandleConnect passes on: "a", "h", "u", no port, a password
GoodConnect ==
    [connection_id |-> <<IDTexts[1]>>, host |-> << <<"h">> >>,
     username |-> << <<"u">> >>, port |-> <<>>, password |-> <<"pw">>,
     private_key_path |-> <<>>, command |-> <<>>]

\* the requests for ssh_connect: GoodConnect with another id and other
\* credentials, or another host and port, or another username
ConnectRequests ==
    {[GoodConnect EXCEPT !.connection_id = id, !.password = password,
                         !.private_key_path = keyPath] :
        id \in IDArgs, password \in PasswordArgs, keyPath \in KeyPathArgs}
    \cup {[GoodConnect EXCEPT !.host = host, !.port = port] :
             host \in HostArgs, port \in PortArgs}
    \cup {[GoodConnect EXCEPT !.username = username] : username \in UsernameArgs}

ExecuteRequests ==
    [connection_id : IDArgs, host : {<<>>}, username : {<<>>}, port : {<<>>},
     password : {<<>>}, private_key_path : {<<>>}, command : CommandArgs]

CloseRequests ==
    [connection_id : IDArgs, host : {<<>>}, username : {<<>>}, port : {<<>>},
     password : {<<>>}, private_key_path : {<<>>}, command : {<<>>}]

\* what HandleConnect returns before it calls the manager, "nil" when it
\* goes on to h.manager.Connect
ConnectRejects(args) ==
    IF args.connection_id = <<>> THEN "MissingArgument"
    ELSE IF validateConnectionID(args.connection_id[1]) # "nil"
         THEN validateConnectionID(args.connection_id[1])
    ELSE IF args.host = <<>> THEN "MissingArgument"
    ELSE IF TrimSpace(args.host[1]) = <<>> THEN "HostEmpty"
    ELSE IF args.username = <<>> THEN "MissingArgument"
    ELSE IF TrimSpace(args.username[1]) = <<>> THEN "UsernameEmpty"
    ELSE IF validatePort(IntOf(GetValue(args.port, Tenths(defaultPort)))) # "nil"
         THEN "PortOutOfRange"
    ELSE validateAuthMethod(GetValue(args.password, ""),
                            GetValue(args.private_key_path, ""))

\* what HandleExecute returns before it calls the manager
ExecuteRejects(args) ==
    IF args.connection_id = <<>> THEN "MissingArgument"
    ELSE IF validateConnectionID(args.connection_id[1]) # "nil"
         THEN validateConnectionID(args.connection_id[1])
    ELSE IF args.command = <<>> THEN "MissingArgument"
    ELSE validateCommand(args.command[1])

\* what HandleClose returns before it calls the manager
CloseRejects(args) ==
    IF args.connection_id = <<>> THEN "MissingArgument"
    ELSE validateConnectionID(args.connection_id[1])

\* what the validation of each request of the model gives
ConnectVerdict == [args \in ConnectRequests |-> ConnectRejects(args)]

ExecuteVerdict == [args \in ExecuteRequests |-> ExecuteRejects(args)]

CloseVerdict == [args \in CloseRequests |-> CloseRejects(args)]

\* m.Connect as a whole: the error it returns, or "nil"
ConnectError(reg, id, host, password, keyPath, keyFile, dial, shell) ==
    LET err == ConnectChecks(reg, id, host, password, keyPath, keyFile)
    IN  IF err # "nil" THEN err
        ELSE IF ~dial THEN "DialError"
        ELSE IF ~shell THEN "ShellError"
        ELSE "nil"

\* what m.Connect can return: keyFile says what os.ReadFile and
\* ssh.ParsePrivateKey make of the file at keyPath, dial and shell whether
\* ssh.Dial and NewShellExecutor succeed
ConnectErrors(reg, id, host, password, keyPath) ==
    {ConnectError(reg, id, host, password, keyPath, keyFile, dial, shell) :
        keyFile \in {"ok", "unreadable", "unparsable"}, dial \in BOOLEAN,
        shell \in BOOLEAN}

\* the handler is back: what it was asked, what it returned, what the manager
\* returned to it and the manager calls it made
Handled(tool, args, out, mgr, calls, ids) ==
    [tool |-> tool, args |-> args, out |-> out, mgr |-> mgr, calls |-> calls,
     ids |-> ids]

\* after the manager call: the error result, or the JSON of the response
\* when json.Marshal gives it
Responds(mgr, marshal) ==
    IF mgr # "nil" THEN Fails(mgr)
    ELSE IF ~marshal THEN Fails("MarshalError")
    ELSE Succeeds

InitHandlers ==
    /\ RdIdle /\ ExIdle /\ MgIdle /\ VlIdle
    /\ HdIdle /\ NsIdle /\ TkIdle /\ SzIdle /\ ClIdle /\ RcIdle

HandleConnect ==
    \E args \in ConnectRequests :
        IF ConnectVerdict[args] # "nil"
        THEN /\ hd_last' = Handled("connect", args, Fails(ConnectVerdict[args]),
                                   "notcalled", <<>>, {})
             /\ UNCHANGED <<hd_reg, hd_written, notHdVars>>
        ELSE LET id == IdOf(args.connection_id[1])
                 port == IntOf(GetValue(args.port, Tenths(defaultPort)))
                 password == GetValue(args.password, "")
                 keyPath == GetValue(args.private_key_path, "")
             IN  \E mgr \in ConnectErrors(hd_reg, id, args.host[1], password,
                                          keyPath), marshal \in BOOLEAN :
                    /\ hd_reg' = IF mgr = "nil" THEN [hd_reg EXCEPT ![id] = 1]
                                 ELSE hd_reg
                    /\ hd_written' = IF mgr = "nil"
                                     THEN [hd_written EXCEPT ![id] = 0]
                                     ELSE hd_written
                    /\ hd_last' = Handled("connect", args, Responds(mgr, marshal),
                                          mgr,
                                          <<[op |-> "Connect", id |-> id,
                                             port |-> port]>>, {})
                    /\ UNCHANGED notHdVars

\* the outcomes of conn.executor.Execute that come after the write to stdin
AfterWrite == {"ok", "WriteError", "StreamError", "CommandTimeout"}

HandleExecute ==
    \E args \in ExecuteRequests :
        IF ExecuteVerdict[args] # "nil"
        THEN /\ hd_last' = Handled("execute", args, Fails(ExecuteVerdict[args]),
                                   "notcalled", <<>>, {})
             /\ UNCHANGED <<hd_reg, hd_written, notHdVars>>
        ELSE \E marshal \in BOOLEAN :
                LET id == IdOf(args.connection_id[1])
                    call == <<[op |-> "Execute", id |-> id, port |-> 0]>>
                IN  IF Lookup(hd_reg, id) = 0
                    THEN /\ hd_last' = Handled("execute", args, Fails("NotFound"),
                                               "NotFound", call, {})
                         /\ UNCHANGED <<hd_reg, hd_written, notHdVars>>
                    ELSE \E outcome \in ExecuteOutcomes("ready") :
                            /\ hd_written[id] < MaxWritten
                            /\ hd_written' =
                                  IF outcome \in AfterWrite
                                  THEN [hd_written EXCEPT ![id] = @ + 1]
                                  ELSE hd_written
                            /\ hd_last' =
                                  Handled("execute", args,
                                          Responds(IF outcome = "ok" THEN "nil"
                                                   ELSE outcome, marshal),
                                          IF outcome = "ok" THEN "nil" ELSE outcome,
                                          call, {})
                            /\ UNCHANGED <<hd_reg, notHdVars>>

HandleClose ==
    \E args \in CloseRequests :
        IF CloseVerdict[args] # "nil"
        THEN /\ hd_last' = Handled("close", args, Fails(CloseVerdict[args]),
                                   "notcalled", <<>>, {})
             /\ UNCHANGED <<hd_reg, hd_written, notHdVars>>
        ELSE \E marshal \in BOOLEAN, executorErr \in BOOLEAN, clientErr \in BOOLEAN :
                LET id == IdOf(args.connection_id[1])
                    call == <<[op |-> "Close", id |-> id, port |-> 0]>>
                IN  IF Lookup(hd_reg, id) = 0
                    THEN /\ hd_last' = Handled("close", args, Fails("NotFound"),
                                               "NotFound", call, {})
                         /\ UNCHANGED <<hd_reg, hd_written, notHdVars>>
                    ELSE /\ hd_reg' = Deletes(hd_reg, id, executorErr, clientErr)
                         /\ hd_written' = [hd_written EXCEPT ![id] = 0]
                         /\ hd_last' = Handled("close", args,
                                               Responds("nil", marshal), "nil",
                                               call, {})
                         /\ UNCHANGED notHdVars

HandleList ==
    \E marshal \in BOOLEAN :
        /\ hd_last' = Handled("list", NoArgs, Responds("nil", marshal), "nil",
                              <<[op |-> "List", id |-> 0, port |-> 0]>>,
                              Infos(hd_reg))
        /\ UNCHANGED <<hd_reg, hd_written, notHdVars>>

NextHandlers == HandleConnect \/ HandleExecute \/ HandleClose \/ HandleList

SpecHandlers == InitHandlers /\ [][NextHandlers]_vars

(***************************************************************************)
(* SpecInit: NewShellExecutor from the start of the shell on, the remote   *)
(* side printing what a login shell prints, and the first Execute.         *)
(***************************************************************************)
MaxNoise == 3

\* what a shell prints before any command: a line of banner, a prompt (which
\* has no newline)
NoisePieces == { <<"w", "\n">>, <<"$">> }

\* one of the `for reader.Buffered() > 0 { _, _ = reader.ReadString('\n') }`
\* loops of drainOutput: the reader it leaves, and whether a ReadString is
\* left waiting for the end of a line
RECURSIVE Drain(_, _)
Drain(rdr, end) ==
    IF Buffered(rdr) > 0
    THEN IF Readable(rdr, end)
         THEN Drain(BufioReadString(rdr, end).rdr, end)
         ELSE [rdr |-> rdr, blocked |-> TRUE]
    ELSE [rdr |-> rdr, blocked |-> FALSE]

\* readUntilDelimiter on a stream that holds the delimiter line: the loop, up
\* to its return
RECURSIVE readUntilDelimiter(_, _, _, _)
readUntilDelimiter(reader, end, delimiter, st) ==
    LET b    == BufioReadString(reader, end)
        next == ReadIteration(st, b.rs, delimiter)
    IN  IF next.pc = "return" THEN [st |-> next, reader |-> b.rdr]
        ELSE readUntilDelimiter(b.rdr, end, delimiter, next)

\* readStderr when everything the command wrote has arrived before its first
\* pass: it reads a line as long as reader.Buffered() > 0, else it sleeps
\* until the deadline and returns what it has
RECURSIVE readStderr(_, _, _)
readStderr(reader, end, output) ==
    IF Buffered(reader) > 0 /\ Readable(reader, end)
    THEN LET b == BufioReadString(reader, end)
         IN  IF b.rs.err = "error" THEN [output |-> <<>>, reader |-> b.rdr]
             ELSE IF b.rs.err = "EOF"
                  THEN [output |-> output \o b.rs.line, reader |-> b.rdr]
                  ELSE readStderr(b.rdr, end, output \o b.rs.line)
    ELSE [output |-> output, reader |-> reader]

InitShell ==
    /\ ns_pc = "sleep1"
    /\ ns_stdout = EmptyReader
    /\ ns_stderr = EmptyReader
    /\ ns_noise = [stdout |-> <<>>, stderr |-> <<>>, n |-> 0]
    /\ ns_result = NoResult
    /\ RdIdle
    /\ ExIdle
    /\ MgIdle
    /\ VlIdle
    /\ HdIdle
    /\ TkIdle
    /\ SzIdle
    /\ ClIdle
    /\ RcIdle

\* during time.Sleep(shellInitialDrainDelay) and
\* time.Sleep(shellInitCommandDelay) the remote side prints something
NsArrive ==
    /\ ns_pc \in {"sleep1", "sleep2"}
    /\ ns_noise.n < MaxNoise
    /\ \E piece \in NoisePieces :
          \/ /\ ns_stdout' = [ns_stdout EXCEPT !.pipe = @ \o piece]
             /\ ns_noise' = [ns_noise EXCEPT !.stdout = @ \o piece, !.n = @ + 1]
             /\ UNCHANGED ns_stderr
          \/ /\ ns_stderr' = [ns_stderr EXCEPT !.pipe = @ \o piece]
             /\ ns_noise' = [ns_noise EXCEPT !.stderr = @ \o piece, !.n = @ + 1]
             /\ UNCHANGED ns_stdout
    /\ UNCHANGED <<ns_pc, ns_result, notNsVars>>

\* the Sleep is over: executor.drainOutput()
NsDrainOutput ==
    /\ ns_pc \in {"sleep1", "sleep2"}
    /\ LET so == Drain(ns_stdout, "open")
           se == Drain(ns_stderr, "open")
       IN  /\ ns_stdout' = so.rdr
           /\ ns_stderr' = IF so.blocked THEN ns_stderr ELSE se.rdr
           /\ ns_pc' = IF so.blocked \/ se.blocked THEN "blocked"
                       ELSE IF ns_pc = "sleep1" THEN "init" ELSE "ready"
    /\ UNCHANGED <<ns_noise, ns_result, notNsVars>>

\* stdin.Write([]byte(initCommands)), which may fail: then session.Close()
\* and the error
NsWriteInit ==
    /\ ns_pc = "init"
    /\ ns_pc' \in {"sleep2", "failed"}
    /\ UNCHANGED <<ns_stdout, ns_stderr, ns_noise, ns_result, notNsVars>>

\* the first Execute on the executor NewShellExecutor returned, the shell
\* answering at once: the command's output and the delimiter line arrive,
\* the two readers run, the result is built
NsExecute(command) ==
    /\ ns_pc = "ready"
    /\ LET delimiter == Delimiter(1)
           sh == ShellRun(command, <<>>)
           so == [ns_stdout EXCEPT
                    !.pipe = @ \o sh.out \o delimiter \o <<":">>
                               \o Itoa(sh.status) \o <<"\n">>]
           se == [ns_stderr EXCEPT !.pipe = @ \o sh.err]
           r1 == readUntilDelimiter(so, "open", delimiter, ReaderStart)
           r2 == readStderr(se, "open", <<>>)
       IN  /\ ns_stdout' = r1.reader
           /\ ns_stderr' = r2.reader
           /\ ns_result' = CommandResult(r1.st.output, r2.output, r1.st.exitCode)
    /\ ns_pc' = "ran"
    /\ UNCHANGED <<ns_noise, notNsVars>>

NextInit ==
    \/ NsArrive
    \/ NsDrainOutput
    \/ NsWriteInit
    \/ \E command \in {CmdEcho, CmdFail} : NsExecute(command)

SpecInit == InitShell /\ [][NextInit]_vars

(***************************************************************************)
(* SpecClock: the delimiter of each run of one executor, the wall clock    *)
(* that time.Now().UnixNano() reads, and the sentinel lines on e.stdout.   *)
(***************************************************************************)
MaxClock == 2

\* the values the clock can show
ClockValues == 0..MaxClock

InitClock ==
    /\ TkIdle
    /\ SzIdle
    /\ ClIdle
    /\ RcIdle
    /\ RdIdle
    /\ ExIdle
    /\ MgIdle
    /\ VlIdle
    /\ HdIdle
    /\ NsIdle

\* the wall clock between two readings: it advances, or it has not advanced
\* by a whole tick of its resolution, or it was set (NTP, settimeofday); in
\* all of them UnixNano() is just the next reading
TkClock ==
    /\ tk_clock' \in ClockValues
    /\ tk_clock' # tk_clock
    /\ UNCHANGED <<tk_pc, tk_delims, tk_stdin, tk_stdout, tk_by, notTkVars>>

\* Execute up to the goroutines: e.mu.Lock(), the delimiter from the clock,
\* the payload written (the command prints nothing)
TkExecute ==
    /\ tk_pc = "idle"
    /\ Len(tk_delims) < MaxRuns
    /\ LET delimiter == Delimiter(tk_clock)
       IN  /\ tk_delims' = Append(tk_delims, delimiter)
           /\ tk_stdin' = Append(tk_stdin,
                             [run |-> Len(tk_delims) + 1, delimiter |-> delimiter])
    /\ tk_pc' = "wait"
    /\ UNCHANGED <<tk_clock, tk_stdout, tk_by, notTkVars>>

\* the remote shell runs the next echo "<delimiter>:$?"
TkShell ==
    /\ tk_stdin # <<>>
    /\ LET echo == Head(tk_stdin)
       IN  tk_stdout' = Append(tk_stdout,
               [run |-> echo.run,
                line |-> echo.delimiter \o <<":">> \o Itoa(0) \o <<"\n">>])
    /\ tk_stdin' = Tail(tk_stdin)
    /\ UNCHANGED <<tk_clock, tk_pc, tk_delims, tk_by, notTkVars>>

\* one pass of readUntilDelimiter for the run in progress; when it returns,
\* so does Execute
TkRead ==
    /\ tk_pc = "wait"
    /\ tk_stdout # <<>>
    /\ LET rs == [line |-> Head(tk_stdout).line, err |-> "nil", rest |-> <<>>]
           st == ReadIteration(ReaderStart, rs, tk_delims[Len(tk_delims)])
       IN  IF st.pc = "return"
           THEN /\ tk_by' = Append(tk_by, Head(tk_stdout).run)
                /\ tk_pc' = "idle"
           ELSE UNCHANGED <<tk_by, tk_pc>>
    /\ tk_stdout' = Tail(tk_stdout)
    /\ UNCHANGED <<tk_clock, tk_delims, tk_stdin, notTkVars>>

\* case <-timeout: the run returns before its sentinel line was read
TkTimeout ==
    /\ tk_pc = "wait"
    /\ tk_by' = Append(tk_by, 0)
    /\ tk_pc' = "idle"
    /\ UNCHANGED <<tk_clock, tk_delims, tk_stdin, tk_stdout, notTkVars>>

NextClock == TkClock \/ TkExecute \/ TkShell \/ TkRead \/ TkTimeout

SpecClock == InitClock /\ [][NextClock]_vars

(***************************************************************************)
(* SpecSize: the size of what readUntilDelimiter accumulates for one run,  *)
(* in bytes, for a command that prints long lines.                         *)
(***************************************************************************)
MaxLines == 5

\* maxOutputSize = 10 * 1024 * 1024
maxOutputSize == 10485760

\* the lengths of the lines the command prints: a byte, 1 MiB, 4 MiB
LineSizes == {1, 1048576, 4194304}

InitSize ==
    /\ sz_pc = "loop"
    /\ sz_lines = 0
    /\ sz_output = 0
    /\ sz_result = NoResult
    /\ RdIdle
    /\ ExIdle
    /\ MgIdle
    /\ VlIdle
    /\ HdIdle
    /\ NsIdle
    /\ TkIdle
    /\ ClIdle
    /\ RcIdle

\* a pass of readUntilDelimiter's loop on a line without the delimiter:
\* output.WriteString(line)
SzReadLine(n) ==
    /\ sz_pc = "loop"
    /\ sz_lines < MaxLines
    /\ sz_lines' = sz_lines + 1
    /\ sz_output' = sz_output + n
    /\ UNCHANGED <<sz_pc, sz_result, notSzVars>>

\* the pass that reads the delimiter line: return output.String(), exitCode, nil
SzReadDelimiter ==
    /\ sz_pc = "loop"
    /\ sz_pc' = "return"
    /\ UNCHANGED <<sz_lines, sz_output, sz_result, notSzVars>>

\* Execute: stdoutBuilder.WriteString(stdout), and the result (the lines hold
\* no white space but their newline: TrimSpace takes the last newline off)
SzExecuteReturn ==
    /\ sz_pc = "return"
    /\ sz_pc' = "done"
    /\ sz_result' = [kind |-> "ok",
                     stdoutLen |-> IF sz_output = 0 THEN 0 ELSE sz_output - 1]
    /\ UNCHANGED <<sz_lines, sz_output, notSzVars>>

NextSize ==
    \/ \E n \in LineSizes : SzReadLine(n)
    \/ SzReadDelimiter
    \/ SzExecuteReturn

SpecSize == InitSize /\ [][NextSize]_vars

(***************************************************************************)
(* SpecClose: the teardown of sessions by Manager.Close and                *)
(* Manager.CloseAll, one Close call (stdin, session, client) per step,     *)
(* with runs holding e.mu meanwhile.                                       *)
(***************************************************************************)
\* a slot of the map nothing was ever stored in
NoParts == [stdin |-> "none", session |-> "none", client |-> "none"]

\* a Connection as Connect stored it
OpenParts == [stdin |-> "open", session |-> "open", client |-> "open"]

\* a teardown that gives up at the first Close that reports an error
CloseNextStopsOnError(step, err) ==
    IF err THEN "delete"
    ELSE CASE step = "stdin" -> "session"
           [] step = "session" -> "client"
           [] step = "client" -> "delete"

\* the statement after each Close call: _ = e.stdin.Close(), then
\* e.session.Close() (its error returned to Manager.Close, which drops it),
\* then _ = conn.client.Close(), then delete(m.connections, id)
CloseNext(step, err) ==
    CASE step = "stdin" -> "session"
      [] step = "session" -> "client"
      [] step = "client" -> "delete"

\* a Manager with some sessions registered, nobody calling it
InitClose ==
    /\ cl_reg \in {reg \in [IDs -> BOOLEAN] :
                      Cardinality({id \in IDs : reg[id]}) <= MaxConnections}
    /\ cl_part = [id \in IDs |-> IF cl_reg[id] THEN OpenParts ELSE NoParts]
    /\ cl_emu = [id \in IDs |-> None]
    /\ cl_pc = "idle"
    /\ cl_op = "none"
    /\ cl_id = 0
    /\ cl_log = <<>>
    /\ cl_ret = "none"
    /\ RcIdle
    /\ RdIdle
    /\ ExIdle
    /\ MgIdle
    /\ VlIdle
    /\ HdIdle
    /\ NsIdle
    /\ TkIdle
    /\ SzIdle

\* m.Execute(id, ...) by another caller: the lookup under RLock, then
\* e.mu.Lock() in ShellExecutor.Execute
ClRunStarts(id) ==
    /\ cl_pc = "idle"
    /\ cl_reg[id]
    /\ cl_emu[id] = None
    /\ cl_emu' = [cl_emu EXCEPT ![id] = "run"]
    /\ UNCHANGED <<cl_reg, cl_part, cl_pc, cl_op, cl_id, cl_log, cl_ret, notClVars>>

\* that Execute returns: the deferred e.mu.Unlock()
ClRunEnds(id) ==
    /\ cl_emu[id] = "run"
    /\ cl_emu' = [cl_emu EXCEPT ![id] = None]
    /\ UNCHANGED <<cl_reg, cl_part, cl_pc, cl_op, cl_id, cl_log, cl_ret, notClVars>>

\* m.Close(id): m.mu.Lock(), conn, exists := m.connections[id]
ClClose(id) ==
    /\ cl_pc = "idle"
    /\ cl_op' = "close"
    /\ IF cl_reg[id]
       THEN /\ cl_pc' = "emu"
            /\ cl_id' = id
            /\ cl_ret' = "none"
       ELSE /\ cl_ret' = "NotFound"
            /\ UNCHANGED <<cl_pc, cl_id>>
    /\ UNCHANGED <<cl_reg, cl_part, cl_emu, cl_log, notClVars>>

\* m.CloseAll(): m.mu.Lock(), the first entry of the range over the map
ClCloseAll ==
    /\ cl_pc = "idle"
    /\ cl_op' = "closeAll"
    /\ IF \E id \in IDs : cl_reg[id]
       THEN /\ cl_pc' = "emu"
            /\ cl_id' \in {id \in IDs : cl_reg[id]}
            /\ cl_ret' = "none"
       ELSE /\ cl_ret' = "nil"
            /\ UNCHANGED <<cl_pc, cl_id>>
    /\ UNCHANGED <<cl_reg, cl_part, cl_emu, cl_log, notClVars>>

\* conn.executor.Close(): e.mu.Lock()
ClLock ==
    /\ cl_pc = "emu"
    /\ cl_emu[cl_id] = None
    /\ cl_emu' = [cl_emu EXCEPT ![cl_id] = "close"]
    /\ cl_pc' = "stdin"
    /\ UNCHANGED <<cl_reg, cl_part, cl_op, cl_id, cl_log, cl_ret, notClVars>>

\* _ = e.stdin.Close()
ClStdin(err) ==
    /\ cl_pc = "stdin"
    /\ cl_part' = [cl_part EXCEPT ![cl_id].stdin = "closed"]
    /\ cl_log' = Append(cl_log, [id |-> cl_id, step |-> "stdin", err |-> err])
    /\ cl_pc' = CloseNext("stdin", err)
    /\ UNCHANGED <<cl_reg, cl_emu, cl_op, cl_id, cl_ret, notClVars>>

\* return e.session.Close(), with the deferred e.mu.Unlock()
ClSession(err) ==
    /\ cl_pc = "session"
    /\ cl_part' = [cl_part EXCEPT ![cl_id].session = "closed"]
    /\ cl_log' = Append(cl_log, [id |-> cl_id, step |-> "session", err |-> err])
    /\ cl_emu' = [cl_emu EXCEPT ![cl_id] = None]
    /\ cl_pc' = CloseNext("session", err)
    /\ UNCHANGED <<cl_reg, cl_op, cl_id, cl_ret, notClVars>>

\* _ = conn.client.Close()
ClClient(err) ==
    /\ cl_pc = "client"
    /\ cl_part' = [cl_part EXCEPT ![cl_id].client = "closed"]
    /\ cl_log' = Append(cl_log, [id |-> cl_id, step |-> "client", err |-> err])
    /\ cl_emu' = [cl_emu EXCEPT ![cl_id] = IF @ = "close" THEN None ELSE @]
    /\ cl_pc' = CloseNext("client", err)
    /\ UNCHANGED <<cl_reg, cl_op, cl_id, cl_ret, notClVars>>

\* delete(m.connections, id); then Close returns nil, and CloseAll goes on
\* to the next entry or returns
ClDelete ==
    /\ cl_pc = "delete"
    /\ LET reg == [cl_reg EXCEPT ![cl_id] = FALSE]
       IN  /\ cl_reg' = reg
           /\ IF cl_op = "closeAll" /\ \E id \in IDs : reg[id]
              THEN /\ cl_id' \in {id \in IDs : reg[id]}
                   /\ cl_pc' = "emu"
                   /\ UNCHANGED cl_ret
              ELSE /\ cl_id' = 0
                   /\ cl_pc' = "idle"
                   /\ cl_ret' = "nil"
    /\ cl_emu' = [cl_emu EXCEPT ![cl_id] = IF @ = "close" THEN None ELSE @]
    /\ UNCHANGED <<cl_part, cl_op, cl_log, notClVars>>

NextClose ==
    \/ \E id \in IDs : ClRunStarts(id) \/ ClRunEnds(id) \/ ClClose(id)
    \/ ClCloseAll
    \/ ClLock
    \/ \E err \in BOOLEAN : ClStdin(err) \/ ClSession(err) \/ ClClient(err)
    \/ ClDelete

SpecClose == InitClose /\ [][NextClose]_vars

(***************************************************************************)
(* SpecRecords: the ConnectionInfo records of the Manager, every call of   *)
(* Connect, Execute, List and Close taken whole (Spec has their steps).    *)
(***************************************************************************)
MaxStamp == 2

\* the user names and ports callers pass
Usernames == {"u", "v"}

Ports == {22}

\* an Info with the id left out
ConnectionInfoNoID(id, host, port, username, now) ==
    [ID |-> 0, Host |-> host, Port |-> port, Username |-> username,
     Created |-> now]

\* Info: ConnectionInfo{ID: id, Host: host, Port: port, Username: username,
\* Created: time.Now()}
ConnectionInfo(id, host, port, username, now) ==
    [ID |-> id, Host |-> host, Port |-> port, Username |-> username,
     Created |-> now]

\* m.connections as the checks of Connect see it: the ids in it
RcReg == [id \in IDs |-> IF rc_conns[id] = <<>> THEN 0 ELSE 1]

\* NewManager
InitRecords ==
    /\ rc_conns = [id \in IDs |-> <<>>]
    /\ rc_now = 0
    /\ rc_list = {}
    /\ rc_ret = [op |-> "none", id |-> 0, kind |-> "none"]
    /\ RdIdle
    /\ ExIdle
    /\ MgIdle
    /\ VlIdle
    /\ HdIdle
    /\ NsIdle
    /\ TkIdle
    /\ SzIdle
    /\ ClIdle

\* m.Connect(id, host, port, username, ...): the checks, the dial, the
\* shell, and m.connections[id] = &Connection{Info: ...}; time has passed
\* since the call before
RcConnect(id, host, port, username) ==
    /\ rc_now < MaxStamp
    /\ rc_now' = rc_now + 1
    /\ \E check \in CheckErrors(RcReg, id, host) :
       \E after \in {"nil", "DialError", "ShellError"} :
          LET err == IF check # "nil" THEN check ELSE after
          IN  /\ rc_conns' = IF err = "nil"
                             THEN [rc_conns EXCEPT ![id] =
                                     <<ConnectionInfo(id, host, port, username,
                                                      rc_now')>>]
                             ELSE rc_conns
              /\ rc_ret' = [op |-> "connect", id |-> id, kind |-> err]
    /\ UNCHANGED <<rc_list, notRcVars>>

\* m.Execute(id, command): the lookup, and conn.executor.Execute(command)
RcExecute(id) ==
    /\ \E kind \in IF rc_conns[id] = <<>> THEN {"NotFound"}
                   ELSE ExecuteOutcomes("ready") :
          rc_ret' = [op |-> "execute", id |-> id, kind |-> kind]
    /\ UNCHANGED <<rc_conns, rc_now, rc_list, notRcVars>>

\* m.List(): infos = append(infos, conn.Info) for each connection: copies
RcList ==
    /\ rc_list' = {rc_conns[id][1] : id \in {i \in IDs : rc_conns[i] # <<>>}}
    /\ rc_ret' = [op |-> "list", id |-> 0, kind |-> "nil"]
    /\ UNCHANGED <<rc_conns, rc_now, notRcVars>>

\* the caller of List writes to an element of the slice it got
RcCallerWrites ==
    /\ \E info \in rc_list :
          /\ info.Host # <<"e">>
          /\ rc_list' = (rc_list \ {info}) \cup {[info EXCEPT !.Host = <<"e">>]}
    /\ rc_ret' = [op |-> "write", id |-> 0, kind |-> "nil"]
    /\ UNCHANGED <<rc_conns, rc_now, notRcVars>>

\* m.Close(id)
RcClose(id) ==
    /\ rc_conns' = [rc_conns EXCEPT ![id] = <<>>]
    /\ rc_ret' = [op |-> "close", id |-> id,
                  kind |-> IF rc_conns[id] = <<>> THEN "NotFound" ELSE "nil"]
    /\ UNCHANGED <<rc_now, rc_list, notRcVars>>

NextRecords ==
    \/ \E id \in IDs, host \in Hosts, port \in Ports, username \in Usernames :
          RcConnect(id, host, port, username)
    \/ \E id \in IDs : RcExecute(id) \/ RcClose(id)
    \/ RcList
    \/ RcCallerWrites

SpecRecords == InitRecords /\ [][NextRecords]_vars

(***************************************************************************)
(* Claims checked under SpecRead.                                          *)
(***************************************************************************)
\* the positions of the newlines of a stream, and where the line that ends
\* at newline e starts
NewlinePositions(data) == {i \in 1..Len(data) : data[i] = "\n"}

LineStart(data, e) ==
    LET before == {j \in NewlinePositions(data) : j < e}
    IN  IF before = {} THEN 1
        ELSE 1 + (CHOOSE j \in before : \A k \in before : k <= j)

\* the newlines that end a line holding the delimiter
SentinelLineEnds(data, delimiter) ==
    {e \in NewlinePositions(data) :
        Contains(SubSeq(data, LineStart(data, e), e), delimiter)}

\* everything the stream delivers before its first sentinel line, verbatim
BeforeSentinelLine(data, delimiter) ==
    LET ends == SentinelLineEnds(data, delimiter)
        e    == CHOOSE x \in ends : \A y \in ends : x <= y
    IN  SubSeq(data, 1, LineStart(data, e) - 1)

\* C10: for a run that completes with the sentinel, the reader's output is,
\* byte for byte and in order, all the lines of the primary stream before the
\* sentinel line (newlines kept), the returned stdout is that text with only
\* the leading and trailing whitespace of the whole removed, and the sentinel
\* line is not part of it.
C10_StdoutIsTextBeforeSentinel ==
    (rd_result.kind = "ok" /\ rd_st.sentinel) =>
        /\ SentinelLineEnds(rd_in, rd_delimiter) # {}
        /\ rd_st.output = BeforeSentinelLine(rd_in, rd_delimiter)
        /\ rd_result.stdout = TrimSpace(BeforeSentinelLine(rd_in, rd_delimiter))
        /\ ~Contains(rd_result.stdout, rd_delimiter)

\* a run that returned two lines of output, the inner newline kept and the
\* trailing one trimmed, the sentinel line read after them
C10_Witness ==
    /\ rd_result.kind = "ok"
    /\ rd_st.sentinel
    /\ rd_result.stdout = <<"a", "\n", "a">>
    /\ rd_st.output = <<"a", "\n", "a", "\n">>

\* the whole lines of a stream: everything up to its last newline
WholeLines(data) ==
    LET ends == NewlinePositions(data)
    IN  IF ends = {} THEN <<>>
        ELSE SubSeq(data, 1, CHOOSE e \in ends : \A k \in ends : k <= e)

\* C26: when the primary stream ends with EOF and has delivered no sentinel
\* line, readUntilDelimiter returns without error the whole lines it read,
\* with exit code 0, and Execute (the secondary reader having reported
\* nothing) returns them, trimmed, as a successful result with exit code 0.
C26_EofBeforeSentinelIsSuccess ==
    (/\ rd_end = "EOF"
     /\ SentinelLineEnds(rd_in, rd_delimiter) = {}
     /\ rd_st.pc = "return") =>
        /\ rd_st.err = "nil"
        /\ ~rd_st.sentinel
        /\ rd_st.exitCode = 0
        /\ rd_st.output = WholeLines(rd_in)
        /\ rd_result # NoResult =>
              rd_result = [kind |-> "ok", stdout |-> TrimSpace(WholeLines(rd_in)),
                           stderr |-> <<>>, exitCode |-> 0]

\* a stream of one line and the start of another, ended by EOF, and the
\* result returned for it
C26_Witness ==
    /\ rd_end = "EOF"
    /\ rd_in = <<"a", "\n", "a">>
    /\ rd_result = [kind |-> "ok", stdout |-> <<"a">>, stderr |-> <<>>,
                    exitCode |-> 0]

\* the first line of the stream that holds the delimiter
SentinelLine(data, delimiter) ==
    LET ends == SentinelLineEnds(data, delimiter)
        e    == CHOOSE x \in ends : \A y \in ends : x <= y
    IN  SubSeq(data, LineStart(data, e), e)

\* the last of the fields the line splits into on ':', trimmed
TrailingField(line) ==
    LET parts == Split(line, ":")
    IN  TrimSpace(parts[Len(parts)])

\* a decimal integer
IsInteger(field) == field # <<>> /\ \A i \in 1..Len(field) : IsDigit(field[i])

\* C27: when readUntilDelimiter returns on the sentinel line, the exit code
\* is the integer the trailing ':'-field of that line holds, and 0 when that
\* field is not an integer, however many ':' the line has.
C27_ExitCodeIsTrailingField ==
    (rd_st.pc = "return" /\ rd_st.sentinel) =>
        LET field == TrailingField(SentinelLine(rd_in, rd_delimiter))
        IN  rd_st.exitCode = IF IsInteger(field) THEN DecimalValue(field) ELSE 0

(***************************************************************************)
(* Claims checked under SpecExec.                                          *)
(***************************************************************************)
\* the callers between e.mu.Lock() and the deferred e.mu.Unlock()
InExecute == {c \in Callers : ex_pc[c] \in {"write", "write2", "wait"}}

\* C4: the runs of one session are serialized: at most one caller is between
\* taking and releasing e.mu, and it is the holder; and the payloads are never
\* interleaved on stdin: every command line written is directly followed by
\* the echo line of the same run (or is the last thing written so far).
C4_RunsAreSerialized ==
    /\ Cardinality(InExecute) <= 1
    /\ \A c \in InExecute : ex_mu = c
    /\ \A i \in 1..Len(ex_written) :
          /\ (i % 2 = 1) => ex_written[i].kind = "cmd"
          /\ (i % 2 = 0) => /\ ex_written[i].kind = "echo"
                            /\ ex_written[i].run = ex_written[i - 1].run

\* a run is waiting for its readers while the other caller, which has called
\* Execute too, is held at e.mu.Lock()
C4_Witness ==
    /\ ex_pc["c1"] = "wait"
    /\ ex_pc["c2"] = "lock"
    /\ ex_mu = "c1"

\* C6 (as claimed): a successful run whose reader found the sentinel line and
\* parsed the exit status k from it returns exitCode = k.
C6_ExitCodeIsSentinelStatus ==
    \A r \in Runs :
        (ex_run[r].res.kind = "ok" /\ ex_run[r].seen.sentinel) =>
            ex_run[r].res.exitCode = ex_run[r].seen.code

\* a run that ended with its sentinel read, or was refused before any write
Clean(r) ==
    \/ ex_run[r].res.kind = "InvalidCommand"
    \/ ex_run[r].res.kind = "ok" /\ ex_run[r].seen.sentinel

\* the value of FOO that the commands of runs 1..r leave in one shell
RECURSIVE FooAfter(_)
FooAfter(r) ==
    IF r = 0 THEN <<>>
    ELSE IF ex_run[r].res.kind = "ok"
         THEN ShellRun(ex_run[r].cmd, FooAfter(r - 1)).foo
         ELSE FooAfter(r - 1)

\* C7: shell state persists from run to run, in the order the runs took e.mu:
\* the shell runs the commands in run order, each in the environment the one
\* before left; and when the runs so far each ended with their sentinel, a run
\* of `echo $FOO` returns as stdout the value the earlier runs left in FOO
\* ("bar" after `export FOO=bar`), whichever callers made the runs.
C7_ShellStatePersists ==
    /\ \A i \in 1..Len(ex_log) :
          /\ ex_log[i].before = (IF i = 1 THEN <<>> ELSE ex_log[i - 1].after)
          /\ i > 1 => ex_log[i].run > ex_log[i - 1].run
    /\ \A r \in Runs :
          ((\A q \in 1..r : Clean(q)) /\ ex_run[r].cmd = CmdEcho) =>
              ex_run[r].res.stdout = FooAfter(r - 1)

\* export FOO=bar, then echo $FOO by the other caller, returned "bar"
C7_Witness ==
    /\ ex_run[1].cmd = CmdExport
    /\ Clean(1)
    /\ ex_run[2].cmd = CmdEcho
    /\ Clean(2)
    /\ ex_run[2].res.stdout = <<"b">>
    /\ Len(ex_log) = 2

\* C8: a run whose command holds the delimiter's fixed text fails with
\* InvalidCommand, nothing of it is ever written to stdin, no reader is started
\* for it, and the step that refuses it leaves stdin, the shell, the streams and
\* e.mu as they were.
C8_ForbiddenCommandWritesNothing ==
    /\ [](\A r \in Runs :
            Contains(ex_run[r].cmd, DelimiterPrefix) =>
               /\ ex_run[r].res = InvalidCommand
               /\ \A i \in 1..Len(ex_written) : ex_written[i].run # r
               /\ ex_so[r].pc = "none"
               /\ ex_se[r].pc = "none")
    /\ [][\A c \in Callers :
            (ex_pc[c] = "lock" /\ Contains(ex_arg[c], DelimiterPrefix)
               /\ ex_pc'[c] # "lock")
            => /\ ex_pc'[c] = "idle"
               /\ UNCHANGED <<ex_mu, ex_stdin, ex_written, ex_shell, ex_stdout,
                              ex_stderr, ex_end, ex_so, ex_se>>]_vars

\* the second run was refused after the first had written its payload
C8_Witness ==
    /\ ex_run[2].res = InvalidCommand
    /\ ex_run[2].cmd = CmdForge
    /\ Len(ex_written) = 2
    /\ ex_mu = None

\* C9: every run whose payload is written returns: a caller waiting in the
\* select loop always ends up back in its caller, and a caller held at e.mu
\* gets it; a run that returns while its sentinel has not been read and the
\* streams are still open returns CommandTimeout; a CommandTimeout carries no
\* partial result; and the returning step releases e.mu.
C9_TimeoutReturnsAndUnlocks ==
    /\ \A c \in Callers : (ex_pc[c] = "wait") ~> (ex_pc[c] = "idle")
    /\ \A c \in Callers : (ex_pc[c] = "lock") ~> (ex_pc[c] # "lock")
    /\ [](\A r \in Runs :
            /\ (ex_run[r].res.kind \in {"ok", "StreamError", "CommandTimeout"}
                  /\ ~ex_run[r].seen.sentinel /\ ex_end = "open")
               => ex_run[r].res.kind = "CommandTimeout"
            /\ ex_run[r].res.kind = "CommandTimeout"
               => DOMAIN ex_run[r].res = {"kind"})
    /\ [](\A c \in Callers : ex_pc[c] \in {"idle", "lock"} => ex_mu # c)

\* a run timed out before the shell had answered, and the next run holds e.mu
C9_Witness ==
    /\ ex_run[1].res = CommandTimeout
    /\ ~ex_run[1].seen.sentinel
    /\ ex_end = "open"
    /\ ex_mu # None
    /\ ex_nruns = 2

C2_DuplicateOpenFailsWithDuplicateID ==
    (m_ret.op = "connect" /\ m_ret.dup) =>
        /\ m_ret.kind = "DuplicateID"
        /\ connections = m_ret.before

\* a connection that is set up: dialed, its shell started and initialised
Complete(obj) == obj.client = "open" /\ obj.executor = "ready"

\* C3: Connect is atomic for the registry: every id in m.connections has a
\* connection that is dialed and whose shell is initialised; the connection an
\* Execute found by its lookup was set up when it was found (it is set up or,
\* since, closed); a List returns only ids of connections that are set up; and
\* a Connect that returns an error (host, credentials, dial, shell) leaves
\* m.connections as it was when it took m.mu.
C3_ConnectIsAtomic ==
    /\ [](\A id \in Registered(connections) : Complete(heap[connections[id]]))
    /\ [](\A p \in Procs :
            m_pc[p] \in {"e_lock", "e_run"} =>
               \/ Complete(heap[m_conn[p]])
               \/ Closed(heap[m_conn[p]]) = heap[m_conn[p]])
    /\ [](m_ret.op = "list" =>
             \A id \in m_ret.ids : /\ connections[id] # 0
                                   /\ Complete(heap[connections[id]]))
    /\ []((m_ret.op = "connect" /\ m_ret.kind # "nil") =>
             connections = m_ret.before)
    /\ [][\A p \in Procs :
            (m_pc[p] \in {"c_dial", "c_shell"} /\ m_pc'[p] = "idle")
            => connections' = m_snap[p]]_vars

\* the shell of a new connection has just failed to start while another
\* caller waits to look up an id that is registered: nothing of the failed
\* connection is in the registry
C3_Witness ==
    /\ m_ret.op = "connect"
    /\ m_ret.kind = "ShellError"
    /\ Registered(connections) # {}
    /\ m_ret.id \notin Registered(connections)
    /\ \E p \in Procs : m_pc[p] = "e_lookup"

\* C5 (as claimed): no Execute on an id that is registered is held at
\* m.mu.RLock() by a Close or CloseAll that holds m.mu and waits for the e.mu of
\* another connection, held by a run in flight there.
C5_RunsOnDifferentIdsIndependent ==
    \A p \in Procs, q \in Procs, r \in Procs :
        ~ /\ m_pc[p] = "e_lookup"
          /\ connections[m_id[p]] # 0
          /\ mu = q
          /\ m_pc[q] \in {"x_exec", "a_exec"}
          /\ m_pc[r] = "e_run"
          /\ heap[m_conn[q]].emu = r
          /\ m_conn[q] # connections[m_id[p]]

\* C11: a Close of an id that is not registered returns NotFound and changes
\* neither the registry nor any connection; a Close of a registered id that
\* gets past the lookup always ends by returning nil with the id removed,
\* whatever the two teardown calls report, and leaves every other entry as it
\* was; a List returns exactly the ids registered, so it omits the id from then
\* on, and a further Close of it is again the NotFound case.
C11_CloseRemovesOrNotFound ==
    /\ [][(m_ret'.op = "close" /\ m_ret'.kind = "NotFound")
            => /\ connections[m_ret'.id] = 0
               /\ connections' = connections
               /\ heap' = heap]_vars
    /\ [][\A p \in Procs :
            (m_pc[p] = "x_exec" /\ m_pc'[p] # "x_exec")
            => /\ m_ret' = Ret(p, "close", m_id[p], "nil", FALSE, {}, <<>>)
               /\ connections[m_id[p]] # 0
               /\ connections' = [connections EXCEPT ![m_id[p]] = 0]
               /\ \A id \in Registered(connections') :
                     heap'[connections'[id]] = heap[connections[id]]]_vars
    /\ []((m_ret.op = "close" /\ m_ret.kind = "nil") =>
             connections[m_ret.id] = 0)
    /\ [](m_ret.op = "list" => m_ret.ids = Registered(connections))

\* a Close has just removed its id while another id stays registered
C11_Witness ==
    /\ m_ret.op = "close"
    /\ m_ret.kind = "nil"
    /\ connections[m_ret.id] = 0
    /\ Registered(connections) # {}

\* C12: an Execute whose id is not registered at its lookup returns NotFound
\* and touches no connection (no e.mu taken, no object changed, the registry
\* as it was); an Execute whose id is registered goes on with exactly the
\* connection registered under that id: it takes the e.mu of that connection
\* and of no other, and its steps change no other connection.
C12_ExecuteDelegatesOrNotFound ==
    /\ [][\A p \in Procs :
            (m_pc[p] = "e_lookup" /\ m_pc'[p] # "e_lookup")
            => IF connections[m_id[p]] = 0
               THEN /\ m_ret' = Ret(p, "execute", m_id[p], "NotFound", FALSE,
                                    {}, <<>>)
                    /\ m_pc'[p] = "idle"
                    /\ UNCHANGED <<connections, heap, m_conn>>
               ELSE /\ m_pc'[p] = "e_lock"
                    /\ m_conn'[p] = connections[m_id[p]]
                    /\ UNCHANGED <<connections, heap>>]_vars
    /\ [][\A p \in Procs :
            (m_pc[p] \in {"e_lock", "e_run"} /\ m_pc'[p] # m_pc[p])
            => /\ \A h \in Handles \ {m_conn[p]} : heap'[h] = heap[h]
               /\ connections' = connections
               /\ m_ret'.kind # "NotFound"]_vars
    /\ [](\A p \in Procs :
            /\ m_pc[p] = "e_run" => heap[m_conn[p]].emu = p
            /\ \A h \in Handles :
                  heap[h].emu = p => (m_pc[p] = "e_run" /\ m_conn[p] = h))

\* an Execute has just returned NotFound while another connection is
\* registered and a run is in flight on it
C12_Witness ==
    /\ m_ret.op = "execute"
    /\ m_ret.kind = "NotFound"
    /\ connections[m_ret.id] = 0
    /\ \E p \in Procs : /\ m_pc[p] = "e_run"
                        /\ \E id \in Registered(connections) :
                              connections[id] = m_conn[p]

\* C13: when CloseAll returns, m.connections is empty and no connection is
\* left with an open client or a live executor; every pass of its loop closes
\* the entry it is at and deletes it, whatever the two Close calls report, so
\* the loop ends after as many passes as there were entries; and a pass can be
\* taken whenever the e.mu of its entry is free.
C13_CloseAllEmptiesRegistry ==
    /\ [](m_ret.op = "closeAll" =>
             /\ m_ret.kind = "nil"
             /\ Registered(connections) = {}
             /\ \A h \in Handles : /\ heap[h].client # "open"
                                   /\ heap[h].executor # "ready")
    /\ [][\A p \in Procs :
            (m_pc[p] = "a_exec" /\ <<m_pc[p], m_id[p]>>' # <<m_pc[p], m_id[p]>>)
            => /\ connections' = [connections EXCEPT ![m_id[p]] = 0]
               /\ heap'[m_conn[p]].client # "open"
               /\ heap'[m_conn[p]].executor # "ready"
               /\ (m_pc'[p] = "idle") = (Registered(connections') = {})]_vars
    /\ [](\A p \in Procs :
            m_pc[p] = "a_exec" =>
               /\ mu = p
               /\ connections[m_id[p]] = m_conn[p]
               /\ heap[m_conn[p]].emu = None => ENABLED CloseAllExecutor(p))

\* CloseAll has just returned, and a caller that had looked up one of the
\* connections before still holds it, closed
C13_Witness ==
    /\ m_ret.op = "closeAll"
    /\ Registered(connections) = {}
    /\ \E p \in Procs : /\ m_pc[p] = "e_lock"
                        /\ heap[m_conn[p]].client = "closed"
                        /\ heap[m_conn[p]].executor = "closed"

\* C14: what a List returns is exactly the set of ids registered at the
\* instant it reads the map, each with a connection that is set up (none that
\* Connect is still building, none that was removed); it is a value made of
\* ids, and the List changes neither the registry nor any connection nor any
\* other caller; and a List can be taken whenever no writer holds m.mu,
\* whatever the other callers are in the middle of.
C14_ListIsSnapshot ==
    /\ [](m_ret.op = "list" =>
             /\ m_ret.ids = Registered(connections)
             /\ m_ret.ids \subseteq IDs
             /\ \A id \in m_ret.ids : Complete(heap[connections[id]])
             /\ \A p \in Procs : m_pc[p] \notin {"c_dial", "c_shell", "c_store"})
    /\ [][m_ret'.op = "list" =>
            UNCHANGED <<connections, mu, heap, m_pc, m_id, m_conn, m_snap>>]_vars
    /\ [](\A p \in Procs :
            ("list" \in Calls(p) /\ m_pc[p] = "idle" /\ mu = None)
               => ENABLED List(p))

\* a List has just returned one id while a run is in flight and another caller
\* holds a connection that was closed and removed
C14_Witness ==
    /\ m_ret.op = "list"
    /\ Cardinality(m_ret.ids) = 1
    /\ \E p \in Procs, q \in Procs :
          /\ m_pc[p] = "e_run"
          /\ m_pc[q] = "e_lock"
          /\ heap[m_conn[q]].client = "closed"


\* the literal parts of a pattern, between its `*`s
Literals(pattern) == Split(pattern, "*")

\* host is the pattern with every `*` replaced by some run of characters, of
\* any length and of any characters: the literal parts occur in host in order,
\* without overlap, the first at the start and the last at the end
Instance(pattern, host) ==
    LET lits == Literals(pattern)
        k == Len(lits)
    IN  \E at \in [1..k -> 1..(Len(host) + 1)] :
           /\ at[1] = 1
           /\ at[k] + Len(lits[k]) = Len(host) + 1
           /\ \A j \in 1..k :
                 /\ at[j] + Len(lits[j]) <= Len(host) + 1
                 /\ SubSeq(host, at[j], at[j] + Len(lits[j]) - 1) = lits[j]
           /\ \A j \in 1..(k - 1) : at[j] + Len(lits[j]) <= at[j + 1]

Reverse(s) == [i \in 1..Len(s) |-> s[Len(s) + 1 - i]]

\* C15: for a validator built without error and any host, Validate returns nil
\* exactly when the host is not empty and is an instance of at least one of
\* the patterns, where a `*` stands for any run of characters, dots included
\* (with the pattern "*.x", "a.b.x" is accepted and "x" is refused) and
\* letters match only themselves ("H" is not "h"); the verdict is the same
\* with the patterns in the opposite order.
C15_ValidateIffMatchesSomePattern ==
    vl_res # "none" =>
        LET patterns == vl_val.patterns
            accepted == vl_res = "nil"
        IN  /\ vl_val.err = "nil"
            /\ accepted <=> /\ vl_host # <<>>
                            /\ \E i \in 1..Len(patterns) :
                                   Instance(patterns[i], vl_host)
            /\ (patterns = << <<"*", ".", "x">> >>
                    /\ vl_host = <<"a", ".", "b", ".", "x">>) => accepted
            /\ (patterns = << <<"*", ".", "x">> >> /\ vl_host = <<"x">>)
                   => ~accepted
            /\ (\A i \in 1..Len(patterns) : patterns[i] = <<"h">>)
                   => (accepted <=> vl_host = <<"h">>)
            /\ Validate(Reverse(patterns), vl_host) = vl_res

\* "a.b.x" has been accepted by the second pattern of "h,*.x"
C15_Witness ==
    /\ vl_spec = <<"h", ",", "*", ".", "x">>
    /\ vl_val.patterns = << <<"h">>, <<"*", ".", "x">> >>
    /\ vl_host = <<"a", ".", "b", ".", "x">>
    /\ vl_res = "nil"

\* the positions of text s where a segment's first non-blank character is:
\* everything between it and the comma before it (or the start) is blank
SegmentStarts(s) ==
    {i \in 1..Len(s) :
        /\ s[i] # ","
        /\ ~IsSpace(s[i])
        /\ \A k \in 1..(i - 1) :
              (\A m \in k..(i - 1) : s[m] # ",") => IsSpace(s[k])}

\* the position of the last non-blank character of the segment that has its
\* first at i
SegmentEnd(s, i) ==
    CHOOSE j \in i..Len(s) :
        /\ \A m \in i..j : s[m] # ","
        /\ ~IsSpace(s[j])
        /\ \A k \in (j + 1)..Len(s) :
              (\A m \in j..k : s[m] # ",") => IsSpace(s[k])

\* the segments of s that survive the trimming, trimmed, in the order of s
Survivors(s) ==
    LET starts == SegmentStarts(s)
        nth(j) == CHOOSE i \in starts : Cardinality({k \in starts : k < i}) = j - 1
    IN  [j \in 1..Cardinality(starts) |-> SubSeq(s, nth(j), SegmentEnd(s, nth(j)))]

\* C16: NewHostValidator returns an error when allowedHosts is empty, when no
\* segment survives the split on commas and the trimming, or when a surviving
\* segment does not compile as a glob; otherwise it returns a validator that
\* holds exactly the surviving segments, trimmed, one pattern each, in order.
C16_ConstructionFailsOrKeepsSurvivors ==
    vl_val.err # "none" =>
        LET survivors == Survivors(vl_spec)
        IN  IF vl_spec = <<>> THEN vl_val.err = "NoAllowedHosts"
            ELSE IF \E j \in 1..Len(survivors) : CompileFails(survivors[j])
                 THEN vl_val.err = "InvalidPattern"
                 ELSE IF survivors = <<>> THEN vl_val.err = "NoValidPatterns"
                      ELSE /\ vl_val.err = "nil"
                           /\ vl_val.patterns = survivors

\* " h,*.x, " has been given and the validator holds "h" and "*.x"
C16_Witness ==
    /\ vl_spec = <<" ", "h", ",", "*", ".", "x">>
    /\ vl_val.err = "nil"
    /\ vl_val.patterns = << <<"h">>, <<"*", ".", "x">> >>

\* the statement without the compile failure: whenever a segment survives,
\* construction succeeds with one pattern per surviving segment
C16_SucceedsWheneverASegmentSurvives ==
    vl_val.err # "none" =>
        LET survivors == Survivors(vl_spec)
        IN  IF vl_spec = <<>> \/ survivors = <<>> THEN vl_val.err # "nil"
            ELSE /\ vl_val.err = "nil"
                 /\ vl_val.patterns = survivors

\* the host is not empty and is an instance of a pattern of --allowed-hosts
Allowed(host) ==
    /\ host # <<>>
    /\ \E j \in 1..Len(Survivors(AllowedHosts)) :
          Instance(Survivors(AllowedHosts)[j], host)

\* the hosts of Hosts that are allowed
AllowedOnes == {host \in Hosts : Allowed(host)}

\* C17: a Connect is at its dial only while it holds m.mu, with an id that is
\* not registered, with the registry below MaxConnections and with a host the
\* validator allows, and all of that is still so in the step that dials; a
\* host the validator denies is never the host of a Connect at its dial.
C17_DialOnlyAfterChecks ==
    /\ [](\A p \in Procs :
            m_pc[p] = "c_dial" =>
               /\ mu = p
               /\ connections[m_id[p]] = 0
               /\ Cardinality(Registered(connections)) < MaxConnections
               /\ Len(m_host[p]) = 1
               /\ m_host[p][1] \in AllowedOnes)
    /\ [][\A p \in Procs :
            (m_pc[p] = "c_dial" /\ m_pc'[p] # "c_dial")
               => /\ mu = p
                  /\ connections[m_id[p]] = 0
                  /\ Cardinality(Registered(connections)) < MaxConnections
                  /\ m_host[p][1] \in AllowedOnes]_vars
    /\ [][\A p \in Procs :
            m_pc'[p] = "c_dial" => (m_pc[p] = "c_dial" \/ m_pc[p] = "idle")]_vars
    /\ [](\A p \in Procs, host \in Hosts :
            host \notin AllowedOnes => ~(m_pc[p] = "c_dial" /\ m_host[p] = <<host>>))

\* a Connect to "a.x" has dialed while another connection is registered
C17_Witness ==
    \E p \in Procs :
        /\ m_pc[p] = "c_shell"
        /\ m_host[p] = << <<"a", ".", "x">> >>
        /\ heap[m_conn[p]].client = "open"
        /\ Cardinality(Registered(connections)) = 1

(***************************************************************************)
(* Claims checked under SpecHandlers.                                      *)
(***************************************************************************)
\* the id of the session a handled request is about, 0 when it has none
Target(last) == IF last.calls = <<>> THEN 0 ELSE last.calls[1].id

\* C18: whatever a handler is asked, it returns a nil error; when the request
\* was refused before the manager was called, or the manager returned an
\* error, what it returns is an error result that carries the reason, and a
\* result that is not an error means the manager returned nil; and a request
\* that ends in an error result leaves the registry entry and the shell of
\* every session other than its own as they were.
C18_FailuresAreResultsAndLocal ==
    /\ [](hd_last.tool # "none" =>
             /\ hd_last.out.err = "nil"
             /\ hd_last.mgr # "nil" =>
                   /\ hd_last.out.result.isError
                   /\ hd_last.out.result.text # ""
                   /\ hd_last.mgr # "notcalled" =>
                         hd_last.out.result.text = hd_last.mgr
             /\ ~hd_last.out.result.isError => hd_last.mgr = "nil")
    /\ [][hd_last'.out.result.isError =>
             \A id \in IDs :
                 id # Target(hd_last') => /\ hd_reg'[id] = hd_reg[id]
                                          /\ hd_written'[id] = hd_written[id]]_vars

\* a run on one session has timed out after its command was written, while
\* another session is registered
C18_Witness ==
    /\ hd_last.tool = "execute"
    /\ hd_last.mgr = "CommandTimeout"
    /\ hd_last.out = Fails("CommandTimeout")
    /\ hd_written[Target(hd_last)] = 1
    /\ \E id \in IDs : id # Target(hd_last) /\ hd_reg[id] = 1

\* the request carries an id that is empty, longer than 128 bytes or has a
\* character other than a letter, a digit, '-' and '_'
BadID(args) ==
    /\ args.connection_id # <<>>
    /\ LET id == args.connection_id[1]
       IN  \/ StrLen(id) = 0
           \/ StrLen(id) > maxConnectionIDLength
           \/ ~(Chars(id) \subseteq {"a", "z", "A", "Z", "0", "9", "-", "_"})

\* the request carries a whole port number outside 1..65535
BadPort(args) ==
    /\ args.port # <<>>
    /\ args.port[1] % 10 = 0
    /\ args.port[1] \notin Tenths(1)..Tenths(maxPort)

\* the request carries a command that is empty or longer than 1 MiB
BadCommand(args) ==
    /\ args.command # <<>>
    /\ StrLen(args.command[1]) \notin 1..maxCommandLength

OutOfRange(last) ==
    \/ last.tool \in {"connect", "execute", "close"} /\ BadID(last.args)
    \/ last.tool = "connect" /\ BadPort(last.args)
    \/ last.tool = "execute" /\ BadCommand(last.args)

C20_ExactlyOneCredential ==
    (/\ hd_last.tool = "connect"
     /\ ~BadID(hd_last.args)
     /\ (hd_last.args.password = <<>>) = (hd_last.args.private_key_path = <<>>))
        => /\ hd_last.out.result.isError
           /\ hd_last.calls = <<>>

(***************************************************************************)
(* Claims about runs and closes on the same session.                       *)
(***************************************************************************)
\* C21: a caller that runs a command on a connection it has looked up holds
\* e.mu only of a connection that is still registered under the id it passed
\* and whose executor has not been closed: once Close or CloseAll has closed
\* and removed the connection, no run takes its lock or writes to its stdin.
C21_NoRunAfterClose ==
    \A p \in Procs :
        m_pc[p] = "e_run" =>
            /\ heap[m_conn[p]].executor = "ready"
            /\ connections[m_id[p]] = m_conn[p]

\* C22: callers that open the same id are serialized by m.mu: at most one
\* caller at a time is past Connect's checks, and it holds m.mu; a Connect
\* returns nil only by storing a connection under an id that had none, so of
\* the opens of one id only one succeeds until the id is removed; a Connect
\* that found the id registered returns an error straight from its checks,
\* having dialed nothing and changed neither the registry nor any connection;
\* no two ids share a connection, and no connection that is set up exists
\* outside the registry except the one a Connect is about to store.
C22_SameIdOpensOneWinner ==
    /\ [](\A p \in Procs, q \in Procs :
            (/\ m_pc[p] \in {"c_dial", "c_shell", "c_store"}
             /\ m_pc[q] \in {"c_dial", "c_shell", "c_store"})
               => (p = q /\ mu = p))
    /\ [][(m_ret'.op = "connect" /\ m_ret'.kind = "nil") =>
             /\ ~m_ret'.dup
             /\ connections[m_ret'.id] = 0
             /\ connections'[m_ret'.id] # 0
             /\ m_pc[m_ret'.proc] = "c_store"]_vars
    /\ [][(m_ret'.op = "connect" /\ m_ret'.dup) =>
             /\ m_ret'.kind \in {"DuplicateID", "CapacityExceeded"}
             /\ m_pc[m_ret'.proc] = "idle"
             /\ connections[m_ret'.id] # 0
             /\ UNCHANGED <<connections, heap, mu>>]_vars
    /\ [](\A id \in IDs, other \in IDs :
            (id # other /\ connections[id] # 0)
               => connections[id] # connections[other])
    /\ [](\A h \in Handles :
            Complete(heap[h]) =>
               \/ \E id \in IDs : connections[id] = h
               \/ \E p \in Procs : m_pc[p] = "c_store" /\ m_conn[p] = h)

\* a second open of an id has just lost with DuplicateID, while the session
\* the first open registered is in use by a run
C22_Witness ==
    /\ m_ret.op = "connect"
    /\ m_ret.dup
    /\ m_ret.kind = "DuplicateID"
    /\ connections[m_ret.id] # 0
    /\ \E q \in Procs : /\ m_pc[q] = "e_run"
                        /\ m_conn[q] = connections[m_ret.id]

(***************************************************************************)
(* Claims checked under SpecInit.                                          *)
(***************************************************************************)
\* the characters only the banner and the prompt hold
NoiseChars == {"w", "$"}

\* C23: nothing of what arrived on stdout or stderr during the two settle
\* delays of NewShellExecutor is in the Stdout or the Stderr of the first
\* Execute, and drainOutput is never left waiting in a read.
C23_FirstRunFreeOfInitOutput ==
    /\ ns_pc # "blocked"
    /\ ns_pc = "ran" =>
          /\ \A i \in 1..Len(ns_result.stdout) : ns_result.stdout[i] \notin NoiseChars
          /\ \A i \in 1..Len(ns_result.stderr) : ns_result.stderr[i] \notin NoiseChars

(***************************************************************************)
(* Claims about the two readers of a run, checked under SpecExec.          *)
(***************************************************************************)
\* C24: when the stderr reader of the first run on the executor stops at its
\* deadline, it has collected every line the command had put on the
\* secondary stream by then: no whole line is left on e.stderr, unread.
C24_StderrReaderCollectsAvailableLines ==
    [][\A r \in Runs :
          (SeDeadline(r) /\ Waiting(r) /\ ex_nruns = 1) =>
              ~HasNewline(ex_stderr.buf \o ex_stderr.pipe)]_vars

\* the Execute call of caller c returns in this step
ExecuteReturnsNow(c) == ex_pc[c] = "wait" /\ ex_pc'[c] = "idle"

\* C25: a run returns a CommandResult only in a step that receives the second
\* of the two outputs, both readers having sent theirs and none a failure;
\* and a run one of whose readers has sent a read failure returns no result:
\* it fails with StreamError, or with CommandTimeout when the select takes
\* the timer, whether or not the other reader had reported before.
C25_ResultNeedsBothReaders ==
    /\ [][\A c \in Callers :
            (ExecuteReturnsNow(c) /\ ex_run'[ex_cur[c]].res.kind = "ok") =>
                LET r == ex_cur[c]
                IN  /\ ex_so[r].pc \in {"assign", "done"}
                    /\ ex_se[r].pc = "done"
                    /\ ex_run[r].errChan = <<>>
                    /\ ex_loc[c].stdoutReceived \/ ex_loc[c].stderrReceived
                    /\ ex_loc[c].stdoutReceived \/ ex_run[r].stdoutChan # <<>>
                    /\ ex_loc[c].stderrReceived \/ ex_run[r].stderrChan # <<>>]_vars
    /\ [][\A c \in Callers :
            (ExecuteReturnsNow(c) /\ ex_run[ex_cur[c]].errChan # <<>>) =>
                ex_run'[ex_cur[c]].res \in {StreamError, CommandTimeout}]_vars

\* the stderr reader has reported and been received, then the stdout reader
\* has sent a read failure, which the select is about to take
C25_Witness ==
    \E c \in Callers :
        /\ ex_pc[c] = "wait"
        /\ ex_loc[c].stderrReceived
        /\ ex_run[ex_cur[c]].errChan # <<>>

\* C25 as stated: a run one of whose readers has sent a read failure fails
\* with StreamError.
C25_FailureAlwaysStreamError ==
    [][\A c \in Callers :
          (ExecuteReturnsNow(c) /\ ex_run[ex_cur[c]].errChan # <<>>) =>
              ex_run'[ex_cur[c]].res = StreamError]_vars

(***************************************************************************)
(* Claims checked under SpecClock.                                         *)
(***************************************************************************)
\* C28: on one executor the delimiter of a run differs from the delimiter of
\* every earlier run, whatever the clock shows, and a run is only ever ended
\* by its own sentinel line.
C28_DelimitersAreFresh ==
    /\ \A i \in 1..Len(tk_delims), j \in 1..Len(tk_delims) :
          i < j => tk_delims[i] # tk_delims[j]
    /\ \A r \in 1..Len(tk_by) : tk_by[r] \in {0, r}

(***************************************************************************)
(* The life of a session, checked under Spec.                              *)
(***************************************************************************)
\* the callers that refer to the object at h
Holders(h) == {p \in Procs : m_conn[p] = h}

\* C29: a session's executor only goes from not there yet to ready (made by
\* Connect, under m.mu, before the session is registered), from ready to
\* closed, and from closed nowhere but out of existence; what is registered
\* is ready, and what a run has taken is ready or closed; a run that returns
\* leaves the executor as it was; a run on a closed executor returns
\* InvalidCommand or WriteError, never a result; a close is only ever started
\* on a ready executor, closing a closed one leaves it as it is, and a Close
\* of an id already closed returns NotFound and changes nothing.
C29_SessionLifecycle ==
    /\ [][\A h \in Handles :
            heap'[h].executor # heap[h].executor =>
                \/ /\ heap[h].executor = "none"
                   /\ heap'[h].executor = "ready"
                   /\ \E p \in Holders(h) : m_pc[p] = "c_shell" /\ mu = p
                   /\ \A id \in IDs : connections[id] # h /\ connections'[id] # h
                \/ /\ heap[h].executor = "ready"
                   /\ heap'[h].executor = "closed"
                   /\ \E p \in Holders(h) : m_pc[p] \in {"x_exec", "a_exec"}
                \/ /\ heap[h].executor \in {"ready", "closed"}
                   /\ heap'[h] = NoConn
                   /\ \A id \in IDs : connections'[id] # h
                   /\ \A p \in Procs : m_conn'[p] # h]_vars
    /\ [](\A id \in Registered(connections) :
            heap[connections[id]].executor = "ready")
    /\ [](\A p \in Procs :
            /\ m_pc[p] \in {"e_lock", "e_run"} =>
                  heap[m_conn[p]].executor \in {"ready", "closed"}
            /\ m_pc[p] \in {"x_exec", "a_exec"} =>
                  heap[m_conn[p]].executor = "ready"
            /\ m_conn[p] # 0 =>
                  Closed(Closed(heap[m_conn[p]])) = Closed(heap[m_conn[p]]))
    /\ [][\A p \in Procs :
            (m_pc[p] = "e_run" /\ m_pc'[p] = "idle") =>
                /\ heap[m_conn[p]].executor = "closed" =>
                      m_ret'.kind \in {"InvalidCommand", "WriteError"}
                /\ \/ heap'[m_conn[p]].executor = heap[m_conn[p]].executor
                   \/ heap[m_conn[p]].executor = "closed"
                        /\ heap'[m_conn[p]] = NoConn]_vars
    /\ [][(m_ret'.op = "close" /\ m_ret'.kind = "NotFound") =>
             UNCHANGED <<connections, heap, mu, m_conn>>]_vars

\* a run has taken the lock of a session that was closed meanwhile, and a
\* second Close of its id has just returned NotFound
C29_Witness ==
    /\ m_ret.op = "close"
    /\ m_ret.kind = "NotFound"
    /\ \E p \in Procs :
          /\ m_pc[p] = "e_run"
          /\ m_id[p] = m_ret.id
          /\ heap[m_conn[p]].executor = "closed"

(***************************************************************************)
(* Claims checked under SpecSize.                                          *)
(***************************************************************************)
\* C30: what is accumulated for a run never exceeds maxOutputSize, and
\* neither does the Stdout of a result.
C30_OutputWithinCap ==
    /\ sz_output <= maxOutputSize
    /\ sz_result # NoResult => sz_result.stdoutLen <= maxOutputSize

(***************************************************************************)
(* More claims checked under SpecRead.                                     *)
(***************************************************************************)
\* what a line holds before the first occurrence of the delimiter in it
BeforeToken(line, delimiter) ==
    LET at == {i \in 1..(Len(line) - Len(delimiter) + 1) :
                  SubSeq(line, i, i + Len(delimiter) - 1) = delimiter}
    IN  SubSeq(line, 1, (CHOOSE i \in at : \A j \in at : i <= j) - 1)

\* C37: when a run completes on the sentinel line, the returned stdout is
\* everything the stream delivered before the token, the text that shares
\* the token's line included (trimmed as a whole), and the exit code is the
\* integer printed after the token.
C37_UnterminatedOutputReturned ==
    (rd_result.kind = "ok" /\ rd_st.sentinel) =>
        LET line == SentinelLine(rd_in, rd_delimiter)
            text == BeforeSentinelLine(rd_in, rd_delimiter)
                        \o BeforeToken(line, rd_delimiter)
        IN  /\ rd_result.stdout = TrimSpace(text)
            /\ IsInteger(TrailingField(line)) =>
                  rd_result.exitCode = DecimalValue(TrailingField(line))

(***************************************************************************)
(* Claims checked under SpecClose.                                         *)
(***************************************************************************)
\* the Close calls made so far on the session of id, in order
ClosesOf(id) == SelectSeq(cl_log, LAMBDA e : e.id = id)

\* C31: every teardown makes its three Close calls in the order stdin,
\* session, client, whatever errors they report; the client is closed only
\* when ShellExecutor.Close has returned and released e.mu; a session whose
\* id was deleted has all three closed; and the call returns nil.
C31_TeardownOrder ==
    /\ [](\A id \in IDs :
            LET done == ClosesOf(id)
            IN  /\ Len(done) <= 3
                /\ \A i \in 1..Len(done) :
                      done[i].step = <<"stdin", "session", "client">>[i]
                /\ (cl_part[id] # NoParts /\ ~cl_reg[id]) =>
                      /\ Len(done) = 3
                      /\ cl_part[id] = [stdin |-> "closed", session |-> "closed",
                                        client |-> "closed"])
    /\ [](cl_pc = "client" =>
            /\ Len(ClosesOf(cl_id)) = 2
            /\ cl_emu[cl_id] # "close")
    /\ [](cl_pc \in {"stdin", "session"} => cl_emu[cl_id] = "close")
    /\ [][(cl_pc = "delete" /\ cl_pc' = "idle") => cl_ret' = "nil"]_vars

\* a session torn down and deleted, both stdin.Close and session.Close
\* having reported an error
C31_Witness ==
    \E id \in IDs :
        /\ ~cl_reg[id]
        /\ cl_part[id].client = "closed"
        /\ Len(ClosesOf(id)) = 3
        /\ ClosesOf(id)[1].err
        /\ ClosesOf(id)[2].err
        /\ cl_ret = "nil"

(***************************************************************************)
(* Claims checked under SpecRecords.                                       *)
(***************************************************************************)
\* C32: the Info of a registered connection holds the id it is registered
\* under; a step that leaves an id registered leaves its Info as it was;
\* and Execute (whatever it returns), List and what the caller of List does
\* with its slice leave m.connections as it was.
C32_RecordsImmutable ==
    /\ [](\A id \in IDs : rc_conns[id] # <<>> => rc_conns[id][1].ID = id)
    /\ [][\A id \in IDs :
            (rc_conns[id] # <<>> /\ rc_conns'[id] # <<>>) =>
                rc_conns'[id] = rc_conns[id]]_vars
    /\ [][rc_ret'.op \in {"execute", "list", "write"} =>
             UNCHANGED rc_conns]_vars
    /\ [][(rc_ret'.op = "connect" /\ rc_ret'.kind # "nil") =>
             UNCHANGED rc_conns]_vars

\* a run on a registered connection has just timed out, after the caller of
\* List overwrote the Host of the copy it had of that connection's Info
C32_Witness ==
    /\ rc_ret.op = "execute"
    /\ rc_ret.kind = "CommandTimeout"
    /\ rc_conns[rc_ret.id] # <<>>
    /\ [rc_conns[rc_ret.id][1] EXCEPT !.Host = <<"e">>] \in rc_list

(***************************************************************************)
(* Claims about successive runs on one executor, checked under SpecExec.   *)
(***************************************************************************)
\* C33: at any time at most one goroutine is in readUntilDelimiter on
\* e.stdout and at most one in readStderr on e.stderr, the goroutines of
\* runs that have returned included.
C33_OneReaderPerStream ==
    /\ Cardinality({r \in Runs : ex_so[r].pc = "loop"}) <= 1
    /\ Cardinality({r \in Runs : ex_se[r].pc = "poll"}) <= 1

\* C34: the stdout of a successful run holds the sentinel of no earlier run
\* on the executor, and with it none of the lines that came before it.
C34_StdoutIsOwnCommands ==
    \A r \in Runs : \A q \in 1..(r - 1) :
        (ex_run[r].res.kind = "ok" /\ ex_run[q].delimiter # <<>>) =>
            ~Contains(ex_run[r].res.stdout, ex_run[q].delimiter)

(***************************************************************************)
(* Claims about the two locks and the transport of a connection, checked   *)
(* under Spec.                                                             *)
(***************************************************************************)
\* the next step of the call p is in
CallStep(p) ==
    \/ ConnectDial(p) \/ ConnectShell(p) \/ ConnectStore(p)
    \/ ExecuteLookup(p) \/ ExecuteLock(p) \/ ExecuteDone(p)
    \/ CloseExecutor(p) \/ CloseAllExecutor(p)

\* the caller that holds the lock p waits for, or None when p waits for none:
\* m.mu for the lookup of Execute, e.mu for a run and for the two teardowns
WaitsFor(p) ==
    CASE m_pc[p] = "e_lookup" -> mu
      [] m_pc[p] \in {"e_lock", "x_exec", "a_exec"} -> heap[m_conn[p]].emu
      [] OTHER -> None

\* the callers that have connection h in hand for a run: they take its e.mu
\* before or after a teardown that waits for it
RunnersOf(h) == {q \in Procs : m_pc[q] \in {"e_lock", "e_run"} /\ m_conn[q] = h}

\* C35: no caller waits forever on m.mu or on an e.mu. A lock is held only by
\* a caller inside the call that took it (m.mu inside Connect, Close or
\* CloseAll; e.mu inside a run on that connection). The holder of an e.mu
\* waits for nothing: its return is enabled. Every caller inside a call can
\* take its next step, or waits for a lock whose holder can take its next
\* step, or waits for m.mu whose holder waits for an e.mu whose holder can
\* return; so the waits form no cycle. While Close(id) waits for the e.mu of
\* a run in flight, no further caller gets the connection in hand, so the
\* runs ahead of it only get fewer; and the step it takes once e.mu is free
\* deletes the id, releases m.mu and returns nil.
C35_NoDeadlock ==
    /\ [](/\ mu # None => m_pc[mu] \in {"c_dial", "c_shell", "c_store",
                                       "x_exec", "a_exec"}
          /\ \A h \in Handles :
                heap[h].emu # None => /\ m_pc[heap[h].emu] = "e_run"
                                      /\ m_conn[heap[h].emu] = h
          /\ \A p \in Procs :
                /\ m_pc[p] = "e_run" => /\ heap[m_conn[p]].emu = p
                                        /\ ENABLED ExecuteDone(p)
                /\ m_pc[p] \in {"x_exec", "a_exec"} => mu = p
                /\ m_pc[p] # "idle" =>
                      \/ ENABLED CallStep(p)
                      \/ /\ WaitsFor(p) # None
                         /\ \/ ENABLED CallStep(WaitsFor(p))
                            \/ /\ WaitsFor(WaitsFor(p)) # None
                               /\ ENABLED CallStep(WaitsFor(WaitsFor(p))))
    /\ [][\A p \in Procs :
            m_pc[p] = "x_exec" =>
               /\ RunnersOf(m_conn[p])' \subseteq RunnersOf(m_conn[p])
               /\ m_pc'[p] # "x_exec" =>
                     /\ heap[m_conn[p]].emu = None
                     /\ m_pc'[p] = "idle"
                     /\ connections' = [connections EXCEPT ![m_id[p]] = 0]
                     /\ mu' = None
                     /\ m_ret'.op = "close" /\ m_ret'.kind = "nil"]_vars

\* Close(id) holds m.mu and waits for the e.mu of a run in flight on id, while
\* another caller waits for m.mu with an Execute
C35_Witness ==
    \E p \in Procs, q \in Procs, r \in Procs :
        /\ m_pc[p] = "x_exec"
        /\ m_pc[q] = "e_run"
        /\ m_conn[q] = m_conn[p]
        /\ heap[m_conn[p]].emu = q
        /\ ~ENABLED CloseExecutor(p)
        /\ m_pc[r] = "e_lookup"
        /\ ~ENABLED ExecuteLookup(r)

\* the ids under which m.connections holds connection h
OwnersOf(h) == {id \in IDs : connections[id] = h}

\* the callers whose Connect is building connection h
BuildersOf(h) ==
    {p \in Procs : m_pc[p] \in {"c_dial", "c_shell", "c_store"} /\ m_conn[p] = h}

\* C36: a connection whose client is dialed and not closed, or whose shell
\* session is started and not closed, is either the one a Connect in progress
\* is building or the connection of exactly one id of m.connections, never
\* both and never neither; so with no Connect in progress each is owned by
\* exactly one entry. A Connect that returns after its dial succeeded and
\* NewShellExecutor failed leaves neither an open client nor a live session,
\* stores nothing and releases m.mu; one whose dial failed made no client.
C36_NoTransportLeak ==
    /\ [](\A h \in Handles :
            (heap[h].client = "open" \/ heap[h].executor = "ready") =>
                Cardinality(OwnersOf(h)) + Cardinality(BuildersOf(h)) = 1)
    /\ [][\A p \in Procs :
            (m_pc[p] \in {"c_dial", "c_shell"} /\ m_pc'[p] = "idle") =>
               /\ m_ret'.op = "connect"
               /\ m_ret'.kind = IF m_pc[p] = "c_dial" THEN "DialError"
                                                       ELSE "ShellError"
               /\ m_pc[p] = "c_dial" => heap[m_conn[p]].client # "open"
               /\ heap'[m_conn[p]].client # "open"
               /\ heap'[m_conn[p]].executor # "ready"
               /\ \A id \in IDs : connections'[id] # m_conn[p]
               /\ connections' = connections
               /\ mu' = None]_vars

\* a Connect has just failed in NewShellExecutor, after its dial succeeded,
\* while another connection is registered and open; no Connect is in progress
C36_Witness ==
    /\ m_ret.op = "connect"
    /\ m_ret.kind = "ShellError"
    /\ \A p \in Procs : m_pc[p] \notin {"c_dial", "c_shell", "c_store"}
    /\ \E id \in IDs : /\ connections[id] # 0
                       /\ heap[connections[id]].client = "open"
                       /\ heap[connections[id]].executor = "ready"
                       /\ id # m_ret.id
=============================================================================
